---- MODULE Spec2Model ----
(***************************************************************************)
(* Attendance Event Engine of Impex_factory_attendence.                    *)
(*                                                                         *)
(* Three parts of the program are modelled over one set of variables:      *)
(*   - the Attendance Store (src/src/core/database_manager.py), shared by  *)
(*     several server processes, each holding its own connection;          *)
(*   - the web server's frame loop (src/web_app.py): debounce of staff     *)
(*     detections and the unknown-person gates;                            *)
(*   - the desktop engine's frame loop                                     *)
(*     (src/src/ui/attendance_dashboard.py): entry/exit tracking of staff. *)
(* Each part has its own specifications: SpecStore and SpecAttendance,     *)
(* SpecWebStaff and SpecWebUnknown, SpecDesk.                              *)
(***************************************************************************)
EXTENDS Integers, Sequences, FiniteSets, TLC

(***************************************************************************)
(* Bounds of the model.                                                    *)
(***************************************************************************)
NumThreads == 3
NumLoops == 2
NumProcs == 2
NumStaff == 2
MaxCalls == 3

Threads == 1..NumThreads
LoopThreads == 1..NumLoops
Procs == 1..NumProcs
Staff == 1..NumStaff

(***************************************************************************)
(* Program constants.  Times of day are seconds since midnight.            *)
(***************************************************************************)
ExpectedTime == 32400
LateWindowEnd == 33600

NULL == -1

(***************************************************************************)
(* The wall clock.  day is the date, tod the time of day in whole seconds, *)
(* us tells whether the sub-second part of datetime.now() is non-zero.     *)
(* The clock only takes the values of ClockPoints, in this order; they lie *)
(* around the program's thresholds and across one change of date.          *)
(***************************************************************************)
ClockPoints ==
    << [day |-> 0, tod |-> 32400, us |-> 0],
       [day |-> 0, tod |-> 32400, us |-> 1],
       [day |-> 0, tod |-> 32430, us |-> 0],
       [day |-> 0, tod |-> 33000, us |-> 0],
       [day |-> 0, tod |-> 33600, us |-> 0],
       [day |-> 0, tod |-> 33600, us |-> 1],
       [day |-> 1, tod |-> 32430, us |-> 0] >>

Days == {ClockPoints[k].day : k \in DOMAIN ClockPoints}

\* the points at which the calls of concurrent processes read the clock
RacePoints == {4, 7}

VARIABLES
    clock,              \* index into ClockPoints of the last reading of the wall clock
    staff_attendance,   \* committed rows of table staff_attendance
    staff_checkins,     \* committed rows of table staff_checkins
    writer,             \* process holding the store's write lock, 0 if none
    pc,                 \* per process: position inside record_staff_attendance
    loc,                \* per process: locals of the call in progress
    tx,                 \* per process: uncommitted tables of its connection
    result,             \* value returned by the last call that returned
    ncalls,             \* number of calls started
    ok_checkins,        \* per (staff, date): check-in calls that returned success
    \* the web server (web_app.py)
    wnow,               \* time.time(), in seconds since midnight of day 0
    system_mode,        \* 'checkin' or 'checkout'
    is_locked,          \* mode locked at start-up
    last_processed,     \* process_attendance.last_processed: staff id -> time
    today_attendance,   \* staff id -> entry of the in-memory dashboard
    recent_track_roles, \* track id -> 'staff' or nothing
    track_states,       \* track id -> per-track history
    recent_unknowns,    \* cache of recently seen unknown embeddings
    unknown_last_processed, \* process_unknown_entry.last_processed: track id -> time
    unknown_entries,    \* rows of table unknown_entries
    nframes,            \* number of detections processed
    win_start,          \* per staff: first confident detection of the current 30 s window
    win_dets,           \* per staff: confident detections in that window
    win_calls,          \* per staff: record_staff_attendance calls made in that window
    unk_suppressed,     \* the last sighting stopped by the embedding gate, if any
    unk_writes,         \* log: sightings whose unknown_entries write was performed
    staff_identified,   \* track ids that received a confident staff identification
    staff_gate_skips,   \* track ids with a later non-staff frame skipped for that reason
    track_last_frame,   \* track id -> staff id named by its latest frame if confident, else 0
    \* the desktop engine (attendance_dashboard.py)
    dnow,               \* time.time(), in seconds since midnight of day 0
    attendance_mode,    \* 'checkin' or 'checkout'
    allow_mode_switch,  \* mode switching allowed
    person_track_status,\* staff id -> entry/exit tracking entry 'staff_<id>'
    desk_today,         \* staff id -> entry of the dashboard's today_attendance
    ncycles,            \* number of processed cycles
    desk_captures,      \* per staff: number of process_attendance calls
    seen_at,            \* per staff: time of the last cycle that detected it
    absent_seen,        \* per staff: a cycle since then found it undetected for > 2 s
    seen_since_capture, \* per staff: a cycle after its last capture detected it
    redetected,         \* per staff: the last cycle detected it again within the leave timeout
    \* direct callers of the store (admin_app.py and the engines' recorders)
    last_unknown_call,  \* the last record_unknown_entry call: arguments and value returned
    last_recheck,       \* the last re-check-as-staff request that found a confident match
    \* the threads of one process around DatabaseManager.lock
    lock_holder,        \* the thread holding self.lock, 0 if it is free
    thread_at,          \* per thread: "idle", "waiting", "open" or "raised"
    thread_op,          \* per thread: the operation it is in, "" if none
    \* the frame-processing loop and its running flag (web_app.py, the dashboard)
    running,            \* the running flag
    lp,                 \* per loop thread: "none", "top", "acquire", "frame", "write", "done"
    lp_last,            \* per loop thread: how its last iteration ended
    \* the dashboard's unknown entry recorder and motion detector
    last_motion_capture_time,  \* motion id -> time of its last capture, 0 if none
    last_sighting,      \* the last sighting handled: its inputs and what became of it
    last_written,       \* embedding and time of the last sighting written before it
    \* the database file: its columns and the staff table
    schema,             \* columns of visits and staff, with the history of the schema fixes
    staff_rows          \* the staff ids that have a row in the staff table

storeVars == << staff_attendance, staff_checkins, writer, pc, loc, tx, result,
                ncalls, ok_checkins >>
webVars == << wnow, system_mode, is_locked, last_processed, today_attendance,
              recent_track_roles, track_states, recent_unknowns,
              unknown_last_processed, unknown_entries, nframes, win_start,
              win_dets, win_calls, unk_suppressed, unk_writes, staff_identified,
              staff_gate_skips, track_last_frame >>
deskVars == << dnow, attendance_mode, allow_mode_switch, person_track_status,
               desk_today, ncycles, desk_captures, seen_at, absent_seen,
               seen_since_capture, redetected >>
lockVars == << lock_holder, thread_at, thread_op >>
loopVars == << running, lp, lp_last >>
recVars == << last_motion_capture_time, last_sighting, last_written >>
maintVars == << schema, staff_rows >>
adminVars == << last_unknown_call, last_recheck, lockVars, loopVars, recVars, maintVars >>
vars == << clock, storeVars, webVars, deskVars, adminVars >>

(***************************************************************************)
(* Pure parts of record_staff_attendance.                                  *)
(***************************************************************************)
KeyMatch(r, s, d) == r.staff_id = s /\ r.date = d

RowExists(att, s, d) == \E i \in DOMAIN att : KeyMatch(att[i], s, d)

\* the table declared without its UNIQUE(staff_id, date) constraint
UniqueViolation_NoConstraint(att, s, d) == FALSE

\* UNIQUE(staff_id, date) of staff_attendance: an INSERT of key (s, d) fails
UniqueViolation(att, s, d) == RowExists(att, s, d)

\* expected_time < current_time <= late_window_end, on times with microseconds
InLateWindow(tod, us) ==
    /\ (tod > ExpectedTime \/ (tod = ExpectedTime /\ us > 0))
    /\ (tod < LateWindowEnd \/ (tod = LateWindowEnd /\ us = 0))

\* the window closed on the left: 09:00:00 sharp counted as late
StatusOf_LateAtExpected(tod, us) ==
    IF InLateWindow(tod, us) \/ (tod = ExpectedTime /\ us = 0) THEN "Late" ELSE "Present"

\* status = 'Late' if expected_time < current_time <= late_window_end else 'Present'
StatusOf(tod, us) == IF InLateWindow(tod, us) THEN "Late" ELSE "Present"

Max(a, b) == IF a >= b THEN a ELSE b

\* the minutes rounded up instead of down
LateMinutes_RoundUp(tod, us) ==
    IF InLateWindow(tod, us) THEN Max(0, (tod - ExpectedTime + 59) \div 60) ELSE 0

\* max(0, int(total_seconds() // 60)) inside the window, 0 outside
LateMinutes(tod, us) ==
    IF InLateWindow(tod, us) THEN Max(0, (tod - ExpectedTime) \div 60) ELSE 0

\* UPDATE staff_attendance SET check_in_time = ? WHERE staff_id = ? AND date = ?
UpdateCheckIn(att, s, d, tod, us) ==
    [i \in DOMAIN att |->
        IF KeyMatch(att[i], s, d)
        THEN [att[i] EXCEPT !.check_in_time = tod]
        ELSE att[i]]

\* INSERT INTO staff_attendance (staff_id, date, check_in_time, status, ...)
InsertCheckIn(att, s, d, tod, us) ==
    Append(att, [staff_id |-> s, date |-> d, check_in_time |-> tod,
                 check_out_time |-> NULL, hours_worked |-> 0,
                 status |-> StatusOf(tod, us)])

\* the event row written only for the first check-in of the day
InsertEvent_FirstOnly(chk, s, d, tod, us) ==
    IF \E i \in DOMAIN chk : KeyMatch(chk[i], s, d)
    THEN chk
    ELSE Append(chk, [staff_id |-> s, date |-> d, check_time |-> tod, us |-> us,
                      status |-> StatusOf(tod, us),
                      late_minutes |-> LateMinutes(tod, us)])

\* INSERT INTO staff_checkins (staff_id, date, check_time, status, late_minutes, ...)
\* us is not a column: it keeps the sub-second part of the call's current_time
InsertEvent(chk, s, d, tod, us) ==
    Append(chk, [staff_id |-> s, date |-> d, check_time |-> tod, us |-> us,
                 status |-> StatusOf(tod, us),
                 late_minutes |-> LateMinutes(tod, us)])

\* hours_worked = CASE WHEN check_in_time IS NOT NULL THEN (out - in) ELSE 0,
\* kept in seconds (the column holds the same value divided by 3600)
HoursWorked(r, tod) ==
    IF r.check_in_time # NULL THEN tod - r.check_in_time ELSE 0

\* UPDATE staff_attendance SET check_out_time = ?, hours_worked = CASE ... END
UpdateCheckOut(att, s, d, tod) ==
    [i \in DOMAIN att |->
        IF KeyMatch(att[i], s, d)
        THEN [att[i] EXCEPT !.check_out_time = tod,
                            !.hours_worked = HoursWorked(att[i], tod)]
        ELSE att[i]]

\* cursor.rowcount of the UPDATE
RowCount(att, s, d) == Cardinality({i \in DOMAIN att : KeyMatch(att[i], s, d)})

\* INSERT INTO staff_attendance (staff_id, date, check_out_time, status, ...)
InsertCheckOut(att, s, d, tod) ==
    Append(att, [staff_id |-> s, date |-> d, check_in_time |-> NULL,
                 check_out_time |-> tod, hours_worked |-> 0,
                 status |-> "Present"])

\* SELECT COUNT(*) FROM staff_attendance WHERE staff_id = ?
TotalVisits(att, s) == Cardinality({i \in DOMAIN att : att[i].staff_id = s})


(***************************************************************************)
(* The web server: one detection of process_video_loop at a time.          *)
(***************************************************************************)
MaxFrames == 3
NumTracks == 2

Tracks == 1..NumTracks
None == 0

\* program constants; times in seconds, confidences and similarities in hundredths
SecondsPerDay == 86400
DebounceSeconds == 30
UnknownDebounceSeconds == 180
DedupWindowSeconds == 300
SimilarityThreshold == 70
StaffThreshold == 55

\* face embeddings, as vectors of two integers
Embeddings == {<<1, 0>>, <<1, 1>>, <<0, 1>>}

Dot(a, b) == a[1] * b[1] + a[2] * b[2]

\* _cosine_similarity(a, b) >= th / 100, for th > 0, computed without square
\* roots; the similarity is 0.0 when one of the norms is 0
CosineAtLeast(a, b, th) ==
    IF Dot(a, a) = 0 \/ Dot(b, b) = 0
    THEN FALSE
    ELSE /\ Dot(a, b) >= 0
         /\ 10000 * Dot(a, b) * Dot(a, b) >= th * th * Dot(a, a) * Dot(b, b)

\* is_same_unknown: entries kept after a shorter window than max_age_seconds
PruneRecent_ShortWindow(cache, now) ==
    SelectSeq(cache, LAMBDA it : now - it.ts <= UnknownDebounceSeconds)

\* is_same_unknown: recent_unknowns after "keep only recent entries"
PruneRecent(cache, now) ==
    SelectSeq(cache, LAMBDA it : now - it.ts <= DedupWindowSeconds)

\* is_same_unknown: the value returned
IsSameUnknown(cache, emb, now) ==
    LET kept == PruneRecent(cache, now) IN
    /\ kept # << >>
    /\ \E i \in DOMAIN kept : CosineAtLeast(emb, kept[i].embedding, SimilarityThreshold)

\* a duplicate sighting refreshing the timestamp of the entries it matches
RecentUnknownsAfter_Refresh(cache, emb, now) ==
    IF IsSameUnknown(cache, emb, now)
    THEN LET kept == PruneRecent(cache, now) IN
         [i \in DOMAIN kept |->
             IF CosineAtLeast(emb, kept[i].embedding, SimilarityThreshold)
             THEN [kept[i] EXCEPT !.ts = now]
             ELSE kept[i]]
    ELSE Append(PruneRecent(cache, now), [embedding |-> emb, ts |-> now])

\* is_same_unknown: recent_unknowns after the call
RecentUnknownsAfter(cache, emb, now) ==
    IF IsSameUnknown(cache, emb, now)
    THEN PruneRecent(cache, now)
    ELSE Append(PruneRecent(cache, now), [embedding |-> emb, ts |-> now])

\* state of a track id that has no entry in track_states
NoTrackState == [first_seen |-> NULL, staff_id |-> None, best_staff_score |-> 0,
                 stable_staff_frames |-> 0, staff_confirmed |-> FALSE,
                 unknown_recorded |-> FALSE]

\* process_video_loop: the entry created for a track id seen for the first time
NewTrackState(now) == [NoTrackState EXCEPT !.first_seen = now]

\* process_video_loop: staff history of a track after a confident staff detection
StaffTrackUpdate(st, person_id, rec_conf) ==
    IF st.staff_id = None \/ st.staff_id = person_id
    THEN [st EXCEPT !.staff_id = person_id,
                    !.best_staff_score = Max(st.best_staff_score, rec_conf),
                    !.stable_staff_frames = st.stable_staff_frames + 1,
                    !.staff_confirmed = (st.staff_confirmed \/ st.stable_staff_frames + 1 >= 2),
                    !.unknown_recorded = FALSE]
    ELSE [st EXCEPT !.staff_id = person_id,
                    !.best_staff_score = rec_conf,
                    !.stable_staff_frames = 1,
                    !.staff_confirmed = FALSE,
                    !.unknown_recorded = FALSE]

\* the debounce test always passing
DebouncePasses_NoDebounce(last, now, window) == TRUE

\* process_attendance: the debounce test; an id never processed has last time 0,
\* which time.time() exceeds by more than the window
DebouncePasses(last, now, window) == last = NULL \/ now - last >= window

\* every call taken as the start of the window, the ignored ones included
LastProcessedAfter_EveryCall(last, s, now) == [last EXCEPT ![s] = now]

\* process_attendance: last_processed after a call for staff id s, which is
\* assigned only past the early return of the debounce
LastProcessedAfter(last, s, now) ==
    IF DebouncePasses(last[s], now, DebounceSeconds)
    THEN [last EXCEPT ![s] = now]
    ELSE last

\* process_unknown_entry: entry type from the two confidences
EntryType(det_conf, rec_conf) ==
    IF det_conf < 30 THEN "covered_face"
    ELSE IF rec_conf < 50 /\ rec_conf > 0 THEN "unknown_person"
    ELSE IF ~(det_conf > 30) THEN "no_face"
    ELSE "unknown_person"

\* record_staff_attendance run to completion by the only process using the store
RecordAttendance(att, chk, s, d, tod, us, ty) ==
    IF ty = "check_in"
    THEN [att |-> IF RowExists(att, s, d)
                  THEN UpdateCheckIn(att, s, d, tod, us)
                  ELSE InsertCheckIn(att, s, d, tod, us),
          chk |-> InsertEvent(chk, s, d, tod, us)]
    ELSE [att |-> IF RowCount(att, s, d) = 0
                  THEN InsertCheckOut(UpdateCheckOut(att, s, d, tod), s, d, tod)
                  ELSE UpdateCheckOut(att, s, d, tod),
          chk |-> chk]

NoEntry == [check_in_time |-> NULL, status |-> "", minutes_late |-> 0,
            check_out_time |-> NULL]

\* record_checkin: today_attendance[staff_id] = {...}
CheckinEntry(tod, us) ==
    LET is_late == tod > ExpectedTime \/ (tod = ExpectedTime /\ us > 0) IN
    [check_in_time |-> tod,
     status |-> IF is_late THEN "min Late" ELSE "On Time",
     minutes_late |-> IF is_late THEN (tod \div 60) - (ExpectedTime \div 60) ELSE 0,
     check_out_time |-> NULL]

\* record_checkout: today_attendance[staff_id]['check_out_time'] = ...
CheckoutEntry(old, tod) ==
    IF old = NoEntry
    THEN [NoEntry EXCEPT !.check_out_time = tod]
    ELSE [old EXCEPT !.check_out_time = tod]

\* the SELECT without its condition is_processed = 0
ExistingUnknown_AnyRow(tbl, track_id, d) ==
    {i \in DOMAIN tbl : /\ track_id # None
                       /\ tbl[i].track_id = track_id
                       /\ tbl[i].date = d}

\* record_unknown_entry: SELECT id ... WHERE track_id = ? AND date = ? AND
\* is_processed = 0; the comparison track_id = NULL matches no row
ExistingUnknown(tbl, track_id, d) ==
    {i \in DOMAIN tbl : /\ track_id # None
                       /\ tbl[i].track_id = track_id
                       /\ tbl[i].date = d
                       /\ tbl[i].is_processed = 0}

\* the UPDATE also overwriting entry_type with the type of the new sighting
RecordUnknownEntry_UpdatesType(tbl, track_id, entry_type, d, tod, mode) ==
    LET ex == ExistingUnknown(tbl, track_id, d) IN
    IF ex # {}
    THEN LET i == CHOOSE k \in ex : \A j \in ex : k <= j IN
         [tbl EXCEPT ![i].time = tod, ![i].system_mode = mode,
                     ![i].entry_type = entry_type]
    ELSE Append(tbl, [id |-> Len(tbl) + 1, track_id |-> track_id,
                      entry_type |-> entry_type, date |-> d, time |-> tod,
                      system_mode |-> mode, is_processed |-> 0])

\* record_unknown_entry: the table after the UPDATE of the row fetched, or
\* after the INSERT of a new row
RecordUnknownEntry(tbl, track_id, entry_type, d, tod, mode) ==
    LET ex == ExistingUnknown(tbl, track_id, d) IN
    IF ex # {}
    THEN LET i == CHOOSE k \in ex : \A j \in ex : k <= j IN
         [tbl EXCEPT ![i].time = tod, ![i].system_mode = mode]
    ELSE Append(tbl, [id |-> Len(tbl) + 1, track_id |-> track_id,
                      entry_type |-> entry_type, date |-> d, time |-> tod,
                      system_mode |-> mode, is_processed |-> 0])

WebStartTimes == {32390}

NoSighting == [embedding |-> <<0, 0>>, ts |-> NULL, track_id |-> None]

InitWeb ==
    /\ wnow \in WebStartTimes
    /\ last_processed = [s \in Staff |-> NULL]
    /\ today_attendance = [s \in Staff |-> NoEntry]
    /\ recent_track_roles = [t \in Tracks |-> ""]
    /\ track_states = [t \in Tracks |-> NoTrackState]
    /\ recent_unknowns = << >>
    /\ unknown_last_processed = [t \in Tracks \cup {None} |-> NULL]
    /\ unknown_entries = << >>
    /\ nframes = 0
    /\ win_start = [s \in Staff |-> NULL]
    /\ win_dets = [s \in Staff |-> 0]
    /\ win_calls = [s \in Staff |-> 0]
    /\ unk_suppressed = NoSighting
    /\ unk_writes = << >>
    /\ staff_identified = {}
    /\ staff_gate_skips = {}
    /\ track_last_frame = [t \in Tracks |-> None]

(***************************************************************************)
(* The desktop engine: entry/exit tracking of staff in process_video.      *)
(***************************************************************************)
MaxCycles == 4
MaxDetections == 2
NumVisible == 1

\* the staff members who pass in front of the dashboard's camera
VisibleStaff == 1..NumVisible

\* program constant: person_track_timeout, in seconds
PersonTrackTimeout == 2

\* the entry created for a staff id that has none
NewTrackStatus == [exists |-> TRUE, in_frame |-> FALSE, last_seen |-> 0,
                   captured |-> FALSE]
NoTrackStatus == [exists |-> FALSE, in_frame |-> FALSE, last_seen |-> 0,
                  captured |-> FALSE]

\* the in-frame test ignored: a captured staff member is captured at every detection
OnStaffDetection_Recapture(st0, now) ==
    LET st == IF st0.exists THEN st0 ELSE NewTrackStatus IN
    IF st.captured
    THEN [status |-> [st EXCEPT !.captured = TRUE, !.in_frame = TRUE, !.last_seen = now],
          capture |-> TRUE]
    ELSE [status |-> [st EXCEPT !.in_frame = TRUE, !.last_seen = now],
          capture |-> FALSE]

\* the captured test ignored: a staff member not in frame is captured at once
OnStaffDetection_CaptureFirst(st0, now) ==
    LET st == IF st0.exists THEN st0 ELSE NewTrackStatus IN
    IF ~st.in_frame
    THEN [status |-> [st EXCEPT !.captured = TRUE, !.in_frame = TRUE, !.last_seen = now],
          capture |-> TRUE]
    ELSE [status |-> [st EXCEPT !.last_seen = now], capture |-> FALSE]

\* process_video: "if is_confirmed_staff:", the update of the staff's entry and
\* whether process_attendance is called (which sets captured again)
OnStaffDetection(st0, now) ==
    LET st == IF st0.exists THEN st0 ELSE NewTrackStatus IN
    IF ~st.in_frame
    THEN IF st.captured
         THEN [status |-> [st EXCEPT !.captured = TRUE, !.in_frame = TRUE,
                                     !.last_seen = now],
               capture |-> TRUE]
         ELSE [status |-> [st EXCEPT !.in_frame = TRUE, !.last_seen = now],
               capture |-> FALSE]
    ELSE [status |-> [st EXCEPT !.last_seen = now], capture |-> FALSE]

\* the leave test passing at the timeout already
OnLeaveCheck_AtTimeout(st, detected, now) ==
    IF ~st.exists THEN st
    ELSE IF detected
         THEN IF st.in_frame THEN [st EXCEPT !.last_seen = now] ELSE st
         ELSE IF st.in_frame /\ now - st.last_seen >= PersonTrackTimeout
              THEN [st EXCEPT !.in_frame = FALSE, !.captured = TRUE]
              ELSE st

\* process_video: "Check for persons who left the frame", for one staff entry
OnLeaveCheck(st, detected, now) ==
    IF ~st.exists THEN st
    ELSE IF detected
         THEN IF st.in_frame THEN [st EXCEPT !.last_seen = now] ELSE st
         ELSE IF st.in_frame /\ now - st.last_seen > PersonTrackTimeout
              THEN [st EXCEPT !.in_frame = FALSE, !.captured = TRUE]
              ELSE st

\* what the cycle's detections, taken in order, do to the tracking entries
\* (track), to the store (att, chk) and to today_attendance (today); caps
\* counts the process_attendance calls per staff id
RECURSIVE AfterDetections(_, _, _, _, _)
AfterDetections(acc, dets, now, us, ty) ==
    IF dets = << >> THEN acc
    ELSE LET s == Head(dets)
             r == OnStaffDetection(acc.track[s], now)
             d == now \div SecondsPerDay
             tod == now % SecondsPerDay
             rec == RecordAttendance(acc.att, acc.chk, s, d, tod, us, ty)
         IN  AfterDetections(
                 IF r.capture
                 THEN [track |-> [acc.track EXCEPT ![s] = r.status],
                       att |-> rec.att,
                       chk |-> rec.chk,
                       today |-> [acc.today EXCEPT ![s] =
                                    IF ty = "check_in" THEN CheckinEntry(tod, us)
                                    ELSE CheckoutEntry(acc.today[s], tod)],
                       caps |-> [acc.caps EXCEPT ![s] = @ + 1]]
                 ELSE [acc EXCEPT !.track[s] = r.status],
                 Tail(dets), now, us, ty)

InSeq(x, sq) == \E i \in DOMAIN sq : sq[i] = x

InitDesk ==
    /\ dnow \in WebStartTimes
    /\ person_track_status = [s \in Staff |-> NoTrackStatus]
    /\ desk_today = [s \in Staff |-> NoEntry]
    /\ ncycles = 0
    /\ desk_captures = [s \in Staff |-> 0]
    /\ seen_at = [s \in Staff |-> NULL]
    /\ absent_seen = [s \in Staff |-> FALSE]
    /\ seen_since_capture = [s \in Staff |-> FALSE]
    /\ redetected = [s \in Staff |-> FALSE]

NoUnknownCall == [track_id |-> None, entry_type |-> "", date |-> NULL, tod |-> NULL,
                  entry_id |-> NULL]

\* DatabaseManager.__init__: self.lock = threading.Lock(), no thread started
InitLock ==
    /\ lock_holder = 0
    /\ thread_at = [t \in Threads |-> "idle"]
    /\ thread_op = [t \in Threads |-> ""]

NoRecheck == [n |-> 0, entry_id |-> NULL, staff_id |-> 0, called |-> FALSE]

\* module level of web_app.py: running = False, no processing thread
InitLoop ==
    /\ running = FALSE
    /\ lp = [t \in LoopThreads |-> "none"]
    /\ lp_last = [t \in LoopThreads |-> "none"]

MotionIds == {1}

NoneSighting == [source |-> "none", track_id |-> None, person_type |-> "unknown",
                 face_conf |-> 0, rec_conf |-> 0, has_face |-> FALSE,
                 entry_type |-> "", written |-> FALSE, duplicate |-> FALSE]

\* __init__ of the dashboard: self.last_motion_capture_time = {}
InitRecorder ==
    /\ last_motion_capture_time = [m \in MotionIds |-> 0]
    /\ last_sighting = NoneSighting
    /\ last_written = NoSighting

\* the columns fix_database_schema looks for
RequiredVisits == {"visit_date", "visit_time", "is_first_visit_today"}

RequiredStaff == {"employee_id", "photo", "showcase_photo"}

\* a database file whose tables visits and staff have these of the required
\* columns; has_rows: visits holds rows; fixed: fix_database_schema has run on
\* it, and once is what its first run left
NewSchema(visits, staff, has_rows) ==
    [visits |-> visits, staff |-> staff, has_rows |-> has_rows,
     start |-> [visits |-> visits, staff |-> staff],
     once |-> [visits |-> visits, staff |-> staff],
     fixed |-> FALSE]

InitAdmin ==
    /\ staff_rows = Staff
    /\ last_unknown_call = NoUnknownCall
    /\ last_recheck = NoRecheck
    /\ InitLoop
    /\ InitRecorder
    /\ InitLock

NoLoc == [staff_id |-> 0, type |-> "none", date |-> 0, tod |-> 0, us |-> 0,
          existing |-> FALSE]
NoTx == [att |-> << >>, chk |-> << >>]
\* result of a call; error names the exception the handler caught ("" if none,
\* "none" while no call has returned)
NoResult == [success |-> FALSE, already_checked_in |-> FALSE, total_visits |-> 0,
             error |-> "none"]
Failure(err) == [success |-> FALSE, already_checked_in |-> FALSE, total_visits |-> 0,
                 error |-> err]

InitBase ==
    /\ clock = 1
    /\ staff_attendance = << >>
    /\ staff_checkins = << >>
    /\ writer = 0
    /\ pc = [p \in Procs |-> "idle"]
    /\ loc = [p \in Procs |-> NoLoc]
    /\ tx = [p \in Procs |-> NoTx]
    /\ result = NoResult
    /\ ncalls = 0
    /\ ok_checkins = [s \in Staff |-> [d \in Days |-> 0]]
    /\ InitWeb
    /\ InitDesk
    /\ InitAdmin

\* DatabaseManager.__init__ on a new file: init_database, then fix_database_schema
Init ==
    /\ InitBase
    /\ schema = [NewSchema(RequiredVisits, RequiredStaff, FALSE) EXCEPT !.fixed = TRUE]

\* ImpexAttendanceDashboard.__init__: initial mode and whether it may be switched
InitDeskMode ==
    /\ attendance_mode \in {"checkin", "checkout"}
    /\ allow_mode_switch \in BOOLEAN

\* a dashboard locked to check-in
InitDeskCheckin ==
    /\ attendance_mode = "checkin"
    /\ allow_mode_switch = FALSE

\* init_system: the mode comes from forced_mode (start_checkin.py,
\* start_checkout.py), which locks it, or from the configuration
InitMode ==
    /\ system_mode \in {"checkin", "checkout"}
    /\ is_locked \in BOOLEAN

\* the check-in server of start_checkin.py
InitCheckinServer ==
    /\ system_mode = "checkin"
    /\ is_locked = TRUE

(***************************************************************************)
(* The wall clock never runs backwards: a reading is the previous reading  *)
(* or a later point.                                                       *)
(***************************************************************************)
LaterClock == clock..Len(ClockPoints)

(***************************************************************************)
(* record_staff_attendance, in the steps another process can tell apart:   *)
(* the SELECT, which reads the committed tables outside any transaction;   *)
(* the writes, whose first UPDATE or INSERT opens the transaction and      *)
(* takes the write lock of the database file; the commit, which makes the  *)
(* writes kept in tx visible to the other connections.                     *)
(***************************************************************************)
\* entry of the call: current_date = date.today(), current_time = datetime.now().time()
RecordBegin(p, s, ty) ==
    /\ pc[p] = "idle"
    /\ ncalls < MaxCalls
    /\ ncalls' = ncalls + 1
    /\ \E c \in LaterClock \cap RacePoints :
          /\ clock' = c
          /\ loc' = [loc EXCEPT ![p] =
                        [staff_id |-> s, type |-> ty, date |-> ClockPoints[c].day,
                         tod |-> ClockPoints[c].tod, us |-> ClockPoints[c].us,
                         existing |-> FALSE]]
    /\ pc' = [pc EXCEPT ![p] = IF ty = "check_in" THEN "select" ELSE "write_out"]
    /\ UNCHANGED << staff_attendance, staff_checkins, writer, tx, result, ok_checkins >>
    /\ UNCHANGED << webVars, deskVars, adminVars >>

\* SELECT id FROM staff_attendance WHERE staff_id = ? AND date = ?
SelectExisting(p) ==
    /\ pc[p] = "select"
    /\ loc' = [loc EXCEPT ![p].existing =
                  RowExists(staff_attendance, loc[p].staff_id, loc[p].date)]
    /\ pc' = [pc EXCEPT ![p] = "write_in"]
    /\ UNCHANGED << clock, staff_attendance, staff_checkins, writer, tx, result,
                    ncalls, ok_checkins >>
    /\ UNCHANGED << webVars, deskVars, adminVars >>

\* the exception handler: the connection is dropped, its transaction rolled back
Fail(p, err) ==
    /\ pc' = [pc EXCEPT ![p] = "idle"]
    /\ tx' = [tx EXCEPT ![p] = NoTx]
    /\ result' = Failure(err)
    /\ loc' = [loc EXCEPT ![p] = NoLoc]

\* check-in: UPDATE of the existing row or INSERT of a new one, which opens the
\* transaction, then INSERT INTO staff_checkins inside it
CheckInWrite(p) ==
    /\ pc[p] = "write_in"
    /\ writer = 0
    /\ LET l == loc[p] IN
       IF ~l.existing /\ UniqueViolation(staff_attendance, l.staff_id, l.date)
       THEN /\ Fail(p, "IntegrityError")
            /\ UNCHANGED writer
       ELSE /\ tx' = [tx EXCEPT ![p] =
                        [att |-> IF l.existing
                                 THEN UpdateCheckIn(staff_attendance, l.staff_id, l.date, l.tod, l.us)
                                 ELSE InsertCheckIn(staff_attendance, l.staff_id, l.date, l.tod, l.us),
                         chk |-> InsertEvent(staff_checkins, l.staff_id, l.date, l.tod, l.us)]]
            /\ writer' = p
            /\ pc' = [pc EXCEPT ![p] = "commit"]
            /\ UNCHANGED << loc, result >>
    /\ UNCHANGED << clock, staff_attendance, staff_checkins, ncalls, ok_checkins >>
    /\ UNCHANGED << webVars, deskVars, adminVars >>

\* check-out: UPDATE of the day's row, which opens the transaction, then, if
\* rowcount == 0, INSERT of a minimal row inside it
CheckOutWrite(p) ==
    /\ pc[p] = "write_out"
    /\ writer = 0
    /\ LET l == loc[p]
           updated == UpdateCheckOut(staff_attendance, l.staff_id, l.date, l.tod)
       IN
       IF RowCount(staff_attendance, l.staff_id, l.date) = 0
          /\ UniqueViolation(updated, l.staff_id, l.date)
       THEN /\ Fail(p, "IntegrityError")
            /\ UNCHANGED writer
       ELSE /\ tx' = [tx EXCEPT ![p] =
                        [att |-> IF RowCount(staff_attendance, l.staff_id, l.date) = 0
                                 THEN InsertCheckOut(updated, l.staff_id, l.date, l.tod)
                                 ELSE updated,
                         chk |-> staff_checkins]]
            /\ writer' = p
            /\ pc' = [pc EXCEPT ![p] = "commit"]
            /\ UNCHANGED << loc, result >>
    /\ UNCHANGED << clock, staff_attendance, staff_checkins, ncalls, ok_checkins >>
    /\ UNCHANGED << webVars, deskVars, adminVars >>

\* SELECT COUNT(*), conn.commit(), conn.close(), return of the result
Commit(p) ==
    /\ pc[p] = "commit"
    /\ LET l == loc[p] IN
       /\ staff_attendance' = tx[p].att
       /\ staff_checkins' = tx[p].chk
       /\ result' = [success |-> TRUE, already_checked_in |-> l.existing,
                     total_visits |-> TotalVisits(tx[p].att, l.staff_id),
                     error |-> ""]
       /\ ok_checkins' = IF l.type = "check_in"
                         THEN [ok_checkins EXCEPT ![l.staff_id][l.date] = @ + 1]
                         ELSE ok_checkins
    /\ writer' = 0
    /\ tx' = [tx EXCEPT ![p] = NoTx]
    /\ pc' = [pc EXCEPT ![p] = "idle"]
    /\ loc' = [loc EXCEPT ![p] = NoLoc]
    /\ UNCHANGED << clock, ncalls >>
    /\ UNCHANGED << webVars, deskVars, adminVars >>

\* the write lock is held by another process until sqlite3's busy timeout:
\* OperationalError "database is locked"
DbLocked(p) ==
    /\ pc[p] \in {"write_in", "write_out"}
    /\ writer \notin {0, p}
    /\ Fail(p, "OperationalError")
    /\ UNCHANGED << clock, staff_attendance, staff_checkins, writer, ncalls,
                    ok_checkins >>
    /\ UNCHANGED << webVars, deskVars, adminVars >>

\* what the other connections see of a table after a connection with pending
\* writes is dropped without a commit
RolledBack_Published(committed, pending) == pending

RolledBack(committed, pending) == committed

\* an exception after the writes and before the end of conn.commit() (disk
\* error, or the commit waiting past the busy timeout for a reader of another
\* connection): the handler returns the failure, the connection is dropped
CommitFails(p) ==
    /\ pc[p] = "commit"
    /\ staff_attendance' = RolledBack(staff_attendance, tx[p].att)
    /\ staff_checkins' = RolledBack(staff_checkins, tx[p].chk)
    /\ Fail(p, "OperationalError on commit")
    /\ writer' = 0
    /\ UNCHANGED << clock, ncalls, ok_checkins >>
    /\ UNCHANGED << webVars, deskVars, adminVars >>

\* the processes run the same code and an idle one holds no state: the next
\* call is made by the idle process of lowest number
LowestIdle(p) == \A q \in Procs : q < p => pc[q] # "idle"

NextStore ==
    \/ \E p \in Procs, s \in Staff, ty \in {"check_in", "check_out"} :
          LowestIdle(p) /\ RecordBegin(p, s, ty)
    \/ \E p \in Procs : SelectExisting(p)
    \/ \E p \in Procs : CheckInWrite(p)
    \/ \E p \in Procs : CheckOutWrite(p)
    \/ \E p \in Procs : Commit(p)
    \/ \E p \in Procs : DbLocked(p)
    \/ \E p \in Procs : CommitFails(p)

\* a check-in server and its store, the dashboard idle
StoreInit == Init /\ InitCheckinServer /\ InitDeskCheckin

SpecStore == StoreInit /\ [][NextStore]_vars

(***************************************************************************)
(* The check-in server (start_checkin.py) and the check-out servers        *)
(* (start_checkout.py) as the processes of the store: process 1 records    *)
(* check-ins only, every other process check-outs only.                    *)
(***************************************************************************)
ProcessType(p) == IF p = 1 THEN "check_in" ELSE "check_out"

NextRace ==
    \/ \E p \in Procs, s \in Staff : RecordBegin(p, s, ProcessType(p))
    \/ \E p \in Procs : SelectExisting(p)
    \/ \E p \in Procs : CheckInWrite(p)
    \/ \E p \in Procs : CheckOutWrite(p)
    \/ \E p \in Procs : Commit(p)
    \/ \E p \in Procs : DbLocked(p)
    \/ \E p \in Procs : CommitFails(p)

RaceInit == Init /\ InitCheckinServer /\ InitDeskCheckin

SpecRace == RaceInit /\ [][NextRace]_vars

(***************************************************************************)
(* record_staff_attendance called by one process at a time: the call runs  *)
(* from its clock reading to its commit with no other call in between.     *)
(***************************************************************************)
RecordStaffAttendance(s, ty) ==
    /\ ncalls < MaxCalls
    /\ writer = 0
    /\ \A q \in Procs : pc[q] = "idle"
    /\ ncalls' = ncalls + 1
    /\ \E c \in LaterClock :
          LET d == ClockPoints[c].day
              rec == RecordAttendance(staff_attendance, staff_checkins, s, d,
                                      ClockPoints[c].tod, ClockPoints[c].us, ty)
          IN  /\ clock' = c
              /\ staff_attendance' = rec.att
              /\ staff_checkins' = rec.chk
              /\ result' = [success |-> TRUE,
                            already_checked_in |->
                                (ty = "check_in" /\ RowExists(staff_attendance, s, d)),
                            total_visits |-> TotalVisits(rec.att, s),
                            error |-> ""]
              /\ ok_checkins' = IF ty = "check_in"
                                THEN [ok_checkins EXCEPT ![s][d] = @ + 1]
                                ELSE ok_checkins
    /\ UNCHANGED << writer, pc, loc, tx >>
    /\ UNCHANGED << webVars, deskVars, adminVars >>

NextAttendance ==
    \E s \in Staff, ty \in {"check_in", "check_out"} : RecordStaffAttendance(s, ty)

AttendanceInit == Init /\ InitCheckinServer /\ InitDeskCheckin

SpecAttendance == AttendanceInit /\ [][NextAttendance]_vars

(***************************************************************************)
(* process_video_loop (web_app.py), the body of "for det_idx, detection in *)
(* enumerate(detections)" for one detection.  dt is the time elapsed since *)
(* the previous detection (0 inside one frame), track_id the id the        *)
(* tracker gave the detection (None if it matched no track), and the       *)
(* identity is what face_engine.identify_person returned.                  *)
(***************************************************************************)
\* track_states after "if track_id is not None: state = track_states.get(...)"
WithTrack(track_id, now) ==
    IF track_id # None /\ track_states[track_id].first_seen = NULL
    THEN [track_states EXCEPT ![track_id] = NewTrackState(now)]
    ELSE track_states

\* a confident detection of staff s at time now is the first one of a new
\* debounce window: there was none before, or the last window is over
OpensWindow(s, now) ==
    win_start[s] = NULL \/ now - win_start[s] >= 30

\* a detection confidently recognised as staff: the track is marked as staff
\* and process_attendance is called (debounce, then record_checkin or
\* record_checkout, which writes through record_staff_attendance)
WebStaffDetection(dt, track_id, person_id, rec_conf, us) ==
    /\ nframes < MaxFrames
    /\ rec_conf >= StaffThreshold
    /\ writer = 0
    /\ nframes' = nframes + 1
    /\ wnow' = wnow + dt
    /\ LET now == wnow + dt
           d == now \div SecondsPerDay
           tod == now % SecondsPerDay
           ty == IF system_mode = "checkin" THEN "check_in" ELSE "check_out"
           rec == RecordAttendance(staff_attendance, staff_checkins, person_id, d, tod, us, ty)
       IN
       /\ track_states' =
             IF track_id # None
             THEN [WithTrack(track_id, now) EXCEPT ![track_id] =
                      StaffTrackUpdate(WithTrack(track_id, now)[track_id], person_id, rec_conf)]
             ELSE track_states
       /\ recent_track_roles' =
             IF track_id # None
             THEN [recent_track_roles EXCEPT ![track_id] = "staff"]
             ELSE recent_track_roles
       /\ staff_identified' =
             IF track_id # None THEN staff_identified \cup {track_id} ELSE staff_identified
       /\ track_last_frame' =
             IF track_id # None
             THEN [track_last_frame EXCEPT ![track_id] = person_id]
             ELSE track_last_frame
       /\ win_start' = IF OpensWindow(person_id, now)
                        THEN [win_start EXCEPT ![person_id] = now]
                        ELSE win_start
       /\ win_dets' = [win_dets EXCEPT ![person_id] =
                          (IF OpensWindow(person_id, now) THEN 0 ELSE @) + 1]
       /\ win_calls' = [win_calls EXCEPT ![person_id] =
                           (IF OpensWindow(person_id, now) THEN 0 ELSE @)
                           + (IF DebouncePasses(last_processed[person_id], now, DebounceSeconds)
                              THEN 1 ELSE 0)]
       /\ last_processed' = LastProcessedAfter(last_processed, person_id, now)
       /\ IF DebouncePasses(last_processed[person_id], now, DebounceSeconds)
          THEN /\ today_attendance' =
                     [today_attendance EXCEPT ![person_id] =
                         IF ty = "check_in" THEN CheckinEntry(tod, us)
                         ELSE CheckoutEntry(today_attendance[person_id], tod)]
               /\ staff_attendance' = rec.att
               /\ staff_checkins' = rec.chk
          ELSE UNCHANGED << today_attendance, staff_attendance, staff_checkins >>
    /\ UNCHANGED << system_mode, is_locked, recent_unknowns, unknown_last_processed,
                    unknown_entries, unk_suppressed, unk_writes, staff_gate_skips >>
    /\ UNCHANGED << clock, writer, pc, loc, tx, result, ncalls, ok_checkins >>
    /\ UNCHANGED << deskVars, adminVars >>

\* the track is known as staff: the role kept since a confident staff
\* identification, or the confirmation of the track history
KnownStaffTrack_ConfirmedOnly(ts, track_id) ==
    ts[track_id].staff_confirmed

KnownStaffTrack(ts, track_id) ==
    \/ recent_track_roles[track_id] = "staff"
    \/ ts[track_id].staff_confirmed

\* a detection of type 'unknown', or of type 'staff' below the staff threshold:
\* the track gates, the embedding gate is_same_unknown, then
\* process_unknown_entry (debounce per track id, crop, record_unknown_entry).
\* outcome tells how the write ended: "ok", "empty_crop" (full_body_image.size
\* is 0) or "store_error" (record_unknown_entry returned None)
WebUnknownDetection(dt, track_id, det, outcome) ==
    /\ nframes < MaxFrames
    /\ det.person_type \in {"unknown", "staff"}
    /\ det.person_type = "staff" => det.rec_conf < StaffThreshold
    /\ nframes' = nframes + 1
    /\ wnow' = wnow + dt
    /\ LET now == wnow + dt
           d == now \div SecondsPerDay
           tod == now % SecondsPerDay
           ts0 == WithTrack(track_id, now)
           staff_track == track_id # None /\ KnownStaffTrack(ts0, track_id)
           skipped ==
               \/ staff_track
               \/ det.probable_staff
               \/ track_id # None /\ 10 * (now - ts0[track_id].first_seen) < 8
               \/ track_id # None /\ ts0[track_id].unknown_recorded
           same == IsSameUnknown(recent_unknowns, det.embedding, now)
           debounced == ~DebouncePasses(unknown_last_processed[track_id], now,
                                        UnknownDebounceSeconds)
           written == ~debounced /\ outcome = "ok"
       IN
       IF skipped
       THEN /\ track_states' = ts0
            /\ staff_gate_skips' =
                  IF staff_track THEN staff_gate_skips \cup {track_id} ELSE staff_gate_skips
            /\ UNCHANGED << recent_unknowns, unknown_last_processed, unknown_entries,
                            unk_suppressed, unk_writes >>
       ELSE /\ UNCHANGED staff_gate_skips
            /\ recent_unknowns' = RecentUnknownsAfter(recent_unknowns, det.embedding, now)
            /\ IF same
               THEN /\ track_states' = ts0
                    /\ unk_suppressed' = [embedding |-> det.embedding, ts |-> now,
                                          track_id |-> track_id]
                    /\ UNCHANGED << unknown_last_processed, unknown_entries, unk_writes >>
               ELSE /\ UNCHANGED unk_suppressed
                    /\ track_states' =
                          IF track_id # None
                          THEN [ts0 EXCEPT ![track_id].unknown_recorded = TRUE]
                          ELSE ts0
                    /\ unknown_last_processed' =
                          IF debounced THEN unknown_last_processed
                          ELSE [unknown_last_processed EXCEPT ![track_id] = now]
                    /\ unknown_entries' =
                          IF written
                          THEN RecordUnknownEntry(unknown_entries, track_id,
                                                  EntryType(det.det_conf, det.rec_conf),
                                                  d, tod, system_mode)
                          ELSE unknown_entries
                    /\ unk_writes' =
                          IF written
                          THEN Append(unk_writes,
                                      [embedding |-> det.embedding, ts |-> now,
                                       track_id |-> track_id,
                                       inserted |-> ExistingUnknown(unknown_entries, track_id, d) = {}])
                          ELSE unk_writes
    /\ track_last_frame' =
          IF track_id # None
          THEN [track_last_frame EXCEPT ![track_id] = None]
          ELSE track_last_frame
    /\ UNCHANGED << system_mode, is_locked, last_processed, today_attendance,
                    recent_track_roles, win_start, win_dets, win_calls,
                    staff_identified >>
    /\ UNCHANGED << clock, storeVars, deskVars, adminVars >>

\* a detection of any other type ('customer'): only the track entry is created
WebOtherDetection(dt, track_id) ==
    /\ nframes < MaxFrames
    /\ nframes' = nframes + 1
    /\ wnow' = wnow + dt
    /\ track_states' = WithTrack(track_id, wnow + dt)
    /\ track_last_frame' =
          IF track_id # None
          THEN [track_last_frame EXCEPT ![track_id] = None]
          ELSE track_last_frame
    /\ UNCHANGED << system_mode, is_locked, last_processed, today_attendance,
                    recent_track_roles, recent_unknowns, unknown_last_processed,
                    unknown_entries, win_start, win_dets, win_calls, unk_suppressed,
                    unk_writes, staff_identified, staff_gate_skips >>
    /\ UNCHANGED << clock, storeVars, deskVars, adminVars >>

\* POST /api/system/mode
SetMode(new_mode) ==
    /\ ~is_locked
    /\ system_mode' = new_mode
    /\ UNCHANGED << wnow, is_locked, last_processed, today_attendance,
                    recent_track_roles, track_states, recent_unknowns,
                    unknown_last_processed, unknown_entries, nframes, win_start,
                    win_dets, win_calls, unk_suppressed, unk_writes, staff_identified,
                    staff_gate_skips, track_last_frame >>
    /\ UNCHANGED << clock, storeVars, deskVars, adminVars >>

\* inputs of the staff scenarios: confident detections of the staff members at
\* distances around the debounce window
StaffDeltas == {0, 29, 30}
StaffConfs == {60}

NextWebStaff ==
    \/ \E dt \in StaffDeltas, t \in {None, 1}, s \in Staff, c \in StaffConfs, us \in {0} :
          WebStaffDetection(dt, t, s, c, us)
    \/ \E m \in {"checkin", "checkout"} : SetMode(m)

\* a web server in either mode, locked or not
WebStaffInit == Init /\ InitMode /\ InitDeskCheckin

SpecWebStaff == WebStaffInit /\ [][NextWebStaff]_vars

\* inputs of the unknown-person scenarios: distances around the track
\* stabilisation time, the per-track debounce and the dedup window
UnknownDeltas == {1, 180}
UnknownFaces ==
    {[person_type |-> "unknown", rec_conf |-> 0, det_conf |-> 90,
      embedding |-> e, probable_staff |-> FALSE] : e \in Embeddings}
    \cup {[person_type |-> "staff", rec_conf |-> 40, det_conf |-> 90,
           embedding |-> <<1, 1>>, probable_staff |-> TRUE]}

NextWebUnknown ==
    \/ \E dt \in UnknownDeltas, t \in Tracks \cup {None}, f \in UnknownFaces,
          o \in {"ok", "store_error"} :
          WebUnknownDetection(dt, t, f, o)
    \/ \E dt \in {0}, t \in {1}, s \in {1}, c \in StaffConfs, us \in {0} :
          WebStaffDetection(dt, t, s, c, us)
    \/ \E dt \in {0}, t \in {1} : WebOtherDetection(dt, t)

WebUnknownInit == Init /\ InitCheckinServer /\ InitDeskCheckin

SpecWebUnknown == WebUnknownInit /\ [][NextWebUnknown]_vars

\* one persisting track of unrecognised faces, seen at distances around the
\* stabilisation time and the re-capture interval
TrackDeltas == {1, 2, 3}
TrackFaces == {f \in UnknownFaces : f.person_type = "unknown"}

NextWebTrack ==
    \E dt \in TrackDeltas, f \in TrackFaces, o \in {"ok", "store_error"} :
        WebUnknownDetection(dt, 1, f, o)

WebTrackInit == Init /\ InitCheckinServer /\ InitDeskCheckin

SpecWebTrack == WebTrackInit /\ [][NextWebTrack]_vars

(***************************************************************************)
(* process_video (attendance_dashboard.py): one processed cycle, dt        *)
(* seconds after the previous one.  dets lists the staff ids of the        *)
(* detections confirmed as staff, in the order of the frame's detections.  *)
(***************************************************************************)
DeskCycle(dt, dets, us) ==
    /\ ncycles < MaxCycles
    /\ writer = 0
    /\ ncycles' = ncycles + 1
    /\ dnow' = dnow + dt
    /\ LET now == dnow + dt
           ty == IF attendance_mode = "checkin" THEN "check_in" ELSE "check_out"
           r == AfterDetections([track |-> person_track_status, att |-> staff_attendance,
                                 chk |-> staff_checkins, today |-> desk_today,
                                 caps |-> [s \in Staff |-> 0]],
                                dets, now, us, ty)
       IN
       /\ person_track_status' =
             [s \in Staff |-> OnLeaveCheck(r.track[s], InSeq(s, dets), now)]
       /\ staff_attendance' = r.att
       /\ staff_checkins' = r.chk
       /\ desk_today' = r.today
       /\ desk_captures' = [s \in Staff |-> desk_captures[s] + r.caps[s]]
       /\ seen_at' = [s \in Staff |-> IF InSeq(s, dets) THEN now ELSE seen_at[s]]
       /\ absent_seen' =
             [s \in Staff |->
                 IF InSeq(s, dets) THEN FALSE
                 ELSE absent_seen[s] \/ (seen_at[s] # NULL /\ now - seen_at[s] > PersonTrackTimeout)]
       /\ seen_since_capture' =
             [s \in Staff |->
                 IF r.caps[s] > 0 THEN FALSE
                 ELSE seen_since_capture[s] \/ (InSeq(s, dets) /\ desk_captures[s] > 0)]
       /\ redetected' =
             [s \in Staff |->
                 /\ InSeq(s, dets)
                 /\ seen_at[s] # NULL
                 /\ seen_at[s] # dnow
                 /\ now - seen_at[s] <= PersonTrackTimeout]
    /\ UNCHANGED << attendance_mode, allow_mode_switch >>
    /\ UNCHANGED << clock, writer, pc, loc, tx, result, ncalls, ok_checkins, webVars,
                    adminVars >>

\* set_mode
DeskSetMode(mode) ==
    /\ allow_mode_switch
    /\ attendance_mode' = mode
    /\ UNCHANGED << dnow, allow_mode_switch, person_track_status, desk_today, ncycles,
                    desk_captures, seen_at, absent_seen, seen_since_capture,
                    redetected >>
    /\ UNCHANGED << clock, storeVars, webVars, adminVars >>

DeskDeltas == {1, 3}

\* the lists of at most MaxDetections staff ids
DetectionLists ==
    UNION {[1..n -> VisibleStaff] : n \in 0..MaxDetections}

NextDesk ==
    \/ \E dt \in DeskDeltas, dets \in DetectionLists, us \in {0} : DeskCycle(dt, dets, us)
    \/ \E m \in {"checkin", "checkout"} : DeskSetMode(m)

\* a dashboard in either mode, switchable or not
DeskInit == Init /\ InitCheckinServer /\ InitDeskMode

SpecDesk == DeskInit /\ [][NextDesk]_vars

\* the processing thread keeps running its cycles
SpecDeskFair == DeskInit /\ [][NextDesk]_vars /\ WF_vars(NextDesk)

(***************************************************************************)
(* The unknown_entries table under its two writers: record_unknown_entry   *)
(* (the engines' recorders) and mark_unknown_entry_processed (the admin    *)
(* routes), each a transaction of its own.                                 *)
(***************************************************************************)
\* the row fetched by record_unknown_entry's SELECT, NULL if there is none
FetchedUnknown(tbl, track_id, d) ==
    IF ExistingUnknown(tbl, track_id, d) = {} THEN NULL
    ELSE CHOOSE k \in ExistingUnknown(tbl, track_id, d) :
             \A j \in ExistingUnknown(tbl, track_id, d) : k <= j

\* record_unknown_entry; outcome "encode_error" is cv2.imencode failing,
\* "store_error" an exception of the store: both return None and write nothing
RecordUnknownEntryCall(track_id, entry_type, mode, outcome) ==
    /\ ncalls < MaxCalls
    /\ ncalls' = ncalls + 1
    /\ \E c \in LaterClock \cap RacePoints :
          LET d == ClockPoints[c].day
              tod == ClockPoints[c].tod
              fetched == FetchedUnknown(unknown_entries, track_id, d)
          IN  /\ clock' = c
              /\ unknown_entries' =
                    IF outcome = "ok"
                    THEN RecordUnknownEntry(unknown_entries, track_id, entry_type, d, tod, mode)
                    ELSE unknown_entries
              /\ last_unknown_call' =
                    [track_id |-> track_id, entry_type |-> entry_type,
                     date |-> d, tod |-> tod,
                     entry_id |-> IF outcome # "ok" THEN NULL
                                  ELSE IF fetched # NULL THEN fetched
                                  ELSE Len(unknown_entries) + 1]
    /\ UNCHANGED << staff_attendance, staff_checkins, writer, pc, loc, tx, result,
                    ok_checkins, last_recheck, lockVars, loopVars, recVars,
                    maintVars >>
    /\ UNCHANGED << wnow, system_mode, is_locked, last_processed, today_attendance,
                    recent_track_roles, track_states, recent_unknowns,
                    unknown_last_processed, nframes, win_start, win_dets, win_calls,
                    unk_suppressed, unk_writes, staff_identified, staff_gate_skips,
                    track_last_frame >>
    /\ UNCHANGED deskVars

\* mark_unknown_entry_processed: UPDATE unknown_entries SET is_processed = 1 WHERE id = ?
MarkProcessed(tbl, entry_id) ==
    [i \in DOMAIN tbl |->
        IF tbl[i].id = entry_id THEN [tbl[i] EXCEPT !.is_processed = 1] ELSE tbl[i]]

MarkUnknownEntryProcessed(entry_id) ==
    /\ unknown_entries' = MarkProcessed(unknown_entries, entry_id)
    /\ UNCHANGED << clock, storeVars, deskVars, adminVars >>
    /\ UNCHANGED << wnow, system_mode, is_locked, last_processed, today_attendance,
                    recent_track_roles, track_states, recent_unknowns,
                    unknown_last_processed, nframes, win_start, win_dets, win_calls,
                    unk_suppressed, unk_writes, staff_identified, staff_gate_skips,
                    track_last_frame >>

NextUnknownStore ==
    \/ \E t \in Tracks \cup {None}, et \in {"unknown_person"},
          m \in {"checkin", "checkout"}, o \in {"ok", "encode_error", "store_error"} :
          RecordUnknownEntryCall(t, et, m, o)
    \/ \E id \in 1..MaxCalls : MarkUnknownEntryProcessed(id)

UnknownStoreInit == Init /\ InitCheckinServer /\ InitDeskCheckin

SpecUnknownStore == UnknownStoreInit /\ [][NextUnknownStore]_vars

\* one track whose sightings are recorded with changing entry types (the
\* dashboard's recorder classifies every sighting anew) and in either mode,
\* and the admin marking rows processed
UpdateEntryTypes == {"unknown_person", "covered_face"}

NextUnknownUpdate ==
    \/ \E et \in UpdateEntryTypes, m \in {"checkin", "checkout"} :
          RecordUnknownEntryCall(1, et, m, "ok")
    \/ \E id \in 1..MaxCalls : MarkUnknownEntryProcessed(id)

UnknownUpdateInit == Init /\ InitCheckinServer /\ InitDeskCheckin

SpecUnknownUpdate == UnknownUpdateInit /\ [][NextUnknownUpdate]_vars

(***************************************************************************)
(* The threads of one process and the mutex of its DatabaseManager.        *)
(* Thread 1 is the processing thread, the others serve HTTP requests.      *)
(* Every operation is "with self.lock:" around sqlite3.connect, the        *)
(* statements and conn.close(); an exception raised inside leaves the      *)
(* with block, which releases the lock, and reaches a handler outside it:  *)
(* the connection is closed there (execute_query) or dropped when the      *)
(* method returns (the other operations).                                  *)
(***************************************************************************)
\* the operations a thread may run: methods of DatabaseManager for every
\* thread, the 'with db_manager.lock' blocks of the admin routes for the
\* request threads
OpsOf(t) ==
    IF t = 1 THEN {"record_staff_attendance", "execute_query"}
    ELSE {"record_staff_attendance", "execute_query", "route"}

\* the call: the thread reaches "with self.lock:"
LockCall(t, op) ==
    /\ thread_at[t] = "idle"
    /\ ncalls < MaxCalls
    /\ ncalls' = ncalls + 1
    /\ thread_at' = [thread_at EXCEPT ![t] = "waiting"]
    /\ thread_op' = [thread_op EXCEPT ![t] = op]
    /\ UNCHANGED lock_holder
    /\ UNCHANGED << staff_attendance, staff_checkins, writer, pc, loc, tx, result,
                    ok_checkins >>
    /\ UNCHANGED << clock, webVars, deskVars, last_unknown_call, last_recheck,
                    loopVars, recVars, maintVars >>

\* threading.Lock.acquire, then conn = sqlite3.connect(self.db_path)
LockAcquire(t) ==
    /\ thread_at[t] = "waiting"
    /\ lock_holder = 0
    /\ lock_holder' = t
    /\ thread_at' = [thread_at EXCEPT ![t] = "open"]
    /\ UNCHANGED thread_op
    /\ UNCHANGED << clock, storeVars, webVars, deskVars, last_unknown_call, last_recheck,
                    loopVars, recVars, maintVars >>

\* conn.commit(), conn.close(), return: the with block releases the lock
LockRelease(t) ==
    /\ thread_at[t] = "open"
    /\ lock_holder' = 0
    /\ thread_at' = [thread_at EXCEPT ![t] = "idle"]
    /\ thread_op' = [thread_op EXCEPT ![t] = ""]
    /\ UNCHANGED << clock, storeVars, webVars, deskVars, last_unknown_call, last_recheck,
                    loopVars, recVars, maintVars >>

\* a statement raises: the with block releases the lock, the connection is
\* still open
LockRaise(t) ==
    /\ thread_at[t] = "open"
    /\ lock_holder' = 0
    /\ thread_at' = [thread_at EXCEPT ![t] = "raised"]
    /\ UNCHANGED thread_op
    /\ UNCHANGED << clock, storeVars, webVars, deskVars, last_unknown_call, last_recheck,
                    loopVars, recVars, maintVars >>

\* the handler: conn.close(), or the return that drops the connection
LockHandler(t) ==
    /\ thread_at[t] = "raised"
    /\ thread_at' = [thread_at EXCEPT ![t] = "idle"]
    /\ thread_op' = [thread_op EXCEPT ![t] = ""]
    /\ UNCHANGED lock_holder
    /\ UNCHANGED << clock, storeVars, webVars, deskVars, last_unknown_call, last_recheck,
                    loopVars, recVars, maintVars >>

NextLock ==
    \/ \E t \in Threads, op \in {"record_staff_attendance", "execute_query", "route"} :
          op \in OpsOf(t) /\ LockCall(t, op)
    \/ \E t \in Threads : LockAcquire(t)
    \/ \E t \in Threads : LockRelease(t)
    \/ \E t \in Threads : LockRaise(t)
    \/ \E t \in Threads : LockHandler(t)

LockInit == Init /\ InitCheckinServer /\ InitDeskCheckin

SpecLock == LockInit /\ [][NextLock]_vars

(***************************************************************************)
(* POST /api/unknown-entries/<id>/recheck-as-staff, for an entry whose     *)
(* stored image is identified as staff member s with recognition           *)
(* confidence >= 0.6 (below it the route returns before any store access). *)
(***************************************************************************)
RecheckWindowSeconds == 300

Abs(x) == IF x < 0 THEN -x ELSE x

\* the check_time values of the staff member's check-in events of the date
CheckTimes(chk, s, d) ==
    {chk[i].check_time : i \in {j \in DOMAIN chk : chk[j].staff_id = s /\ chk[j].date = d}}

\* SELECT check_time ... ORDER BY check_time DESC, rows[0]: the latest event
\* of the date; already_captured = diff_minutes <= 5.0
AlreadyCaptured(chk, s, d, t) ==
    /\ CheckTimes(chk, s, d) # {}
    /\ LET last == CHOOSE c \in CheckTimes(chk, s, d) :
                       \A c2 \in CheckTimes(chk, s, d) : c2 <= c
       IN  Abs(t - last) <= RecheckWindowSeconds

\* the route, run for an entry of the table, processed or not (no statement
\* of the route reads is_processed): the entry's row, the staff member's
\* events, record_staff_attendance at the current time in the entry's mode
\* unless already captured, mark_unknown_entry_processed
RecheckAsStaff(entry_id, s) ==
    /\ entry_id \in DOMAIN unknown_entries
    /\ last_recheck.n < MaxCalls
    /\ writer = 0
    /\ \A q \in Procs : pc[q] = "idle"
    /\ LET e == unknown_entries[entry_id]
           captured == AlreadyCaptured(staff_checkins, s, e.date, e.time)
           ty == IF e.system_mode = "checkin" THEN "check_in" ELSE "check_out"
       IN  /\ IF captured
              THEN UNCHANGED << clock, staff_attendance, staff_checkins, result,
                                ok_checkins >>
              ELSE \E c \in LaterClock \cap (RacePoints \cup {clock}) :
                      LET d == ClockPoints[c].day
                          rec == RecordAttendance(staff_attendance, staff_checkins, s, d,
                                                  ClockPoints[c].tod, ClockPoints[c].us, ty)
                      IN  /\ clock' = c
                          /\ staff_attendance' = rec.att
                          /\ staff_checkins' = rec.chk
                          /\ result' = [success |-> TRUE,
                                        already_checked_in |->
                                            (ty = "check_in"
                                             /\ RowExists(staff_attendance, s, d)),
                                        total_visits |-> TotalVisits(rec.att, s),
                                        error |-> ""]
                          /\ ok_checkins' = IF ty = "check_in"
                                            THEN [ok_checkins EXCEPT ![s][d] = @ + 1]
                                            ELSE ok_checkins
           /\ last_recheck' = [n |-> last_recheck.n + 1, entry_id |-> entry_id,
                               staff_id |-> s, called |-> ~captured]
    /\ unknown_entries' = MarkProcessed(unknown_entries, entry_id)
    /\ UNCHANGED << writer, pc, loc, tx, ncalls, last_unknown_call, lockVars, loopVars,
                    recVars, maintVars, deskVars >>
    /\ UNCHANGED << wnow, system_mode, is_locked, last_processed, today_attendance,
                    recent_track_roles, track_states, recent_unknowns,
                    unknown_last_processed, nframes, win_start, win_dets, win_calls,
                    unk_suppressed, unk_writes, staff_identified, staff_gate_skips,
                    track_last_frame >>

\* the engines' calls (check-ins of staff, unknown entries of one track in
\* either mode) and the admin's re-checks
NextAdmin ==
    \/ \E s \in Staff : RecordStaffAttendance(s, "check_in")
    \/ \E m \in {"checkin", "checkout"} : RecordUnknownEntryCall(1, "unknown_person", m, "ok")
    \/ \E id \in 1..MaxCalls, s \in Staff : RecheckAsStaff(id, s)

AdminInit == Init /\ InitCheckinServer /\ InitDeskCheckin

SpecAdmin == AdminInit /\ [][NextAdmin]_vars

(***************************************************************************)
(* The frame-processing loop (process_video_loop of web_app.py,            *)
(* process_video of the dashboard) and the requests that start and stop    *)
(* it.  A loop thread is at "top" before the test of the running flag, at  *)
(* "acquire" before get_frame, at "frame" with a frame in hand, at "write" *)
(* inside a store write of the iteration, at "done" once the while loop    *)
(* has ended.  The whole body of the loop is inside try/except Exception.  *)
(***************************************************************************)
\* the loop test: "while running:"
LoopTest_Forever(flag) == TRUE

LoopTest(flag) == flag

\* where the handler "except Exception as e: print(...); time.sleep(...)"
\* leaves the thread
AfterException_Ends == "done"

AfterException == "top"

\* POST /api/system/start (start_recognition): refused while running; a mode
\* field of the request replaces system_mode; the camera may fail to start;
\* otherwise running = True and a new processing thread is started
StartSystem(requested_mode, camera_ok) ==
    /\ ~running
    /\ \E t \in LoopThreads :
          /\ lp[t] = "none"
          /\ \A u \in LoopThreads : u < t => lp[u] # "none"
          /\ system_mode' = IF requested_mode \in {"checkin", "checkout"}
                            THEN requested_mode ELSE system_mode
          /\ IF camera_ok
             THEN /\ running' = TRUE
                  /\ lp' = [lp EXCEPT ![t] = "top"]
             ELSE UNCHANGED << running, lp >>
    /\ UNCHANGED lp_last
    /\ UNCHANGED << wnow, is_locked, last_processed, today_attendance,
                    recent_track_roles, track_states, recent_unknowns,
                    unknown_last_processed, unknown_entries, nframes, win_start,
                    win_dets, win_calls, unk_suppressed, unk_writes, staff_identified,
                    staff_gate_skips, track_last_frame >>
    /\ UNCHANGED << clock, storeVars, deskVars, last_unknown_call, last_recheck,
                    lockVars, recVars, maintVars >>

\* POST /api/system/stop (stop_recognition): running = False
StopSystem ==
    /\ running' = FALSE
    /\ UNCHANGED << lp, lp_last >>
    /\ UNCHANGED << clock, storeVars, webVars, deskVars, last_unknown_call,
                    last_recheck, lockVars, recVars, maintVars >>

\* "while running:" evaluated by thread t
LoopCheck(t) ==
    /\ lp[t] = "top"
    /\ lp' = [lp EXCEPT ![t] = IF LoopTest(running) THEN "acquire" ELSE "done"]
    /\ UNCHANGED << running, lp_last >>
    /\ UNCHANGED << clock, storeVars, webVars, deskVars, last_unknown_call,
                    last_recheck, lockVars, recVars, maintVars >>

\* frame = camera_manager.get_frame(): None (sleep, continue), a frame, or an
\* exception of the camera
LoopAcquire(t, got) ==
    /\ lp[t] = "acquire"
    /\ lp' = [lp EXCEPT ![t] = IF got = "frame" THEN "frame"
                               ELSE IF got = "none" THEN "top"
                               ELSE AfterException]
    /\ lp_last' = [lp_last EXCEPT ![t] = IF got = "exception" THEN "exception" ELSE @]
    /\ UNCHANGED running
    /\ UNCHANGED << clock, storeVars, webVars, deskVars, last_unknown_call,
                    last_recheck, lockVars, recVars, maintVars >>

\* the body with a frame in hand: the frame is skipped or yields no
\* detection to record ("ok"), a detection reaches a store write ("write"),
\* or the face engine, the tracker or an image operation raises ("exception")
LoopProcess(t, outcome) ==
    /\ lp[t] = "frame"
    /\ lp' = [lp EXCEPT ![t] = IF outcome = "write" THEN "write"
                               ELSE IF outcome = "ok" THEN "top"
                               ELSE AfterException]
    /\ lp_last' = [lp_last EXCEPT ![t] = IF outcome = "write" THEN @ ELSE outcome]
    /\ UNCHANGED running
    /\ UNCHANGED << clock, storeVars, webVars, deskVars, last_unknown_call,
                    last_recheck, lockVars, recVars, maintVars >>

\* the store write of the iteration returns: done ("ok"), a failure the
\* recorder caught and reported ("failed"), or an exception that reaches the
\* handler of the loop ("exception")
LoopWrite(t, outcome) ==
    /\ lp[t] = "write"
    /\ lp' = [lp EXCEPT ![t] = IF outcome = "exception" THEN AfterException ELSE "top"]
    /\ lp_last' = [lp_last EXCEPT ![t] = IF outcome = "ok" /\ ~running
                                         THEN "written after stop" ELSE outcome]
    /\ UNCHANGED running
    /\ UNCHANGED << clock, storeVars, webVars, deskVars, last_unknown_call,
                    last_recheck, lockVars, recVars, maintVars >>

LoopStep(t) ==
    \/ LoopCheck(t)
    \/ \E got \in {"frame", "none", "exception"} : LoopAcquire(t, got)
    \/ \E o \in {"ok", "write", "exception"} : LoopProcess(t, o)
    \/ \E o \in {"ok", "failed", "exception"} : LoopWrite(t, o)

NextLoop ==
    \/ \E m \in {"", "checkin", "checkout"}, c \in BOOLEAN : StartSystem(m, c)
    \/ StopSystem
    \/ \E m \in {"checkin", "checkout"} : SetMode(m)
    \/ \E t \in LoopThreads : LoopCheck(t)
    \/ \E t \in LoopThreads, got \in {"frame", "none", "exception"} : LoopAcquire(t, got)
    \/ \E t \in LoopThreads, o \in {"ok", "write", "exception"} : LoopProcess(t, o)
    \/ \E t \in LoopThreads, o \in {"ok", "failed", "exception"} : LoopWrite(t, o)

\* a server in either mode, locked or not, not yet started
LoopInit == Init /\ InitMode /\ InitDeskCheckin

SpecLoop == LoopInit /\ [][NextLoop]_vars

\* the scheduler lets every live thread run
SpecLoopFair == LoopInit /\ [][NextLoop]_vars /\ \A t \in LoopThreads : WF_vars(LoopStep(t))

(***************************************************************************)
(* The dashboard's unknown entry recorder (process_unknown_entries) with   *)
(* its two sources, the unknown branch of process_video and the motion     *)
(* detector (detect_and_capture_motion), and the classification of         *)
(* process_unknown_entry of web_app.py.  Confidences are in hundredths.    *)
(***************************************************************************)
PersonTypes == {"staff", "customer", "unknown"}

\* process_unknown_entries, "Determine entry type": the classification of the
\* dashboard
EntryTypeDesk(is_motion, person_type, face_conf, rec_conf, has_face) ==
    IF is_motion
    THEN IF has_face THEN "unknown_person" ELSE "no_face"
    ELSE IF person_type = "customer" THEN "customer"
    ELSE IF face_conf < 30 THEN "covered_face"
    ELSE IF rec_conf < 50 /\ rec_conf > 0 THEN "unknown_person"
    ELSE IF rec_conf = 0 THEN "unknown_person"
    ELSE IF ~has_face THEN "no_face"
    ELSE "unknown_person"

\* process_unknown_entry of web_app.py: has_face = det_confidence > 0.3
EntryTypeWeb(det_conf, rec_conf) ==
    LET has_face == det_conf > 30 IN
    IF det_conf < 30 THEN "covered_face"
    ELSE IF rec_conf < 50 /\ rec_conf > 0 THEN "unknown_person"
    ELSE IF ~has_face THEN "no_face"
    ELSE "unknown_person"

\* the motion gate: time_since_capture < self.motion_capture_interval (0.2 s),
\* with times in whole seconds
MotionCaptureTooSoon(time_since_capture) == 5 * time_since_capture < 1

\* a written sighting whose embedding is as close as the duplicate threshold
\* to the one written before it, inside the window of the recent unknowns
DuplicateOfWritten(emb, now) ==
    /\ last_written.ts # NULL
    /\ emb # <<0, 0>>
    /\ now - last_written.ts <= DedupWindowSeconds
    /\ CosineAtLeast(last_written.embedding, emb, SimilarityThreshold)

\* process_unknown_entries for one detection: classification, then
\* record_unknown_entry
ProcessUnknownEntries(source, track_id, person_type, face_conf, rec_conf, has_face, emb, now) ==
    LET et == IF source = "web" THEN EntryTypeWeb(face_conf, rec_conf)
              ELSE EntryTypeDesk(source = "motion", person_type, face_conf, rec_conf,
                                 has_face)
        mode == IF source = "web" THEN system_mode ELSE attendance_mode
    IN
    /\ unknown_entries' = RecordUnknownEntry(unknown_entries, track_id, et,
                                            ClockPoints[clock].day, now, mode)
    /\ last_sighting' = [source |-> source, track_id |-> track_id,
                         person_type |-> person_type, face_conf |-> face_conf,
                         rec_conf |-> rec_conf, has_face |-> has_face,
                         entry_type |-> et, written |-> TRUE,
                         duplicate |-> DuplicateOfWritten(emb, now)]
    /\ last_written' = [embedding |-> emb, ts |-> now, track_id |-> track_id]

\* the unknown branch of process_video has decided to capture a face-based
\* detection (has_face True) and hands it to process_unknown_entries
DeskFaceSighting(dt, track_id, person_type, face_conf, rec_conf, emb) ==
    /\ ncycles < MaxCycles
    /\ ncycles' = ncycles + 1
    /\ dnow' = dnow + dt
    /\ ProcessUnknownEntries("face", track_id, person_type, face_conf, rec_conf, TRUE,
                             emb, dnow + dt)
    /\ UNCHANGED last_motion_capture_time
    /\ UNCHANGED << attendance_mode, allow_mode_switch, person_track_status, desk_today,
                    desk_captures, seen_at, absent_seen, seen_since_capture,
                    redetected >>
    /\ UNCHANGED << wnow, system_mode, is_locked, last_processed, today_attendance,
                    recent_track_roles, track_states, recent_unknowns,
                    unknown_last_processed, nframes, win_start, win_dets, win_calls,
                    unk_suppressed, unk_writes, staff_identified, staff_gate_skips,
                    track_last_frame >>
    /\ UNCHANGED << clock, storeVars, last_unknown_call, last_recheck, lockVars,
                    loopVars, maintVars >>

\* process_unknown_entry of web_app.py past its debounce: classification, then
\* record_unknown_entry
WebFaceSighting(dt, track_id, person_type, det_conf, rec_conf, emb) ==
    /\ ncycles < MaxCycles
    /\ ncycles' = ncycles + 1
    /\ dnow' = dnow + dt
    /\ ProcessUnknownEntries("web", track_id, person_type, det_conf, rec_conf,
                             det_conf > 30, emb, dnow + dt)
    /\ UNCHANGED last_motion_capture_time
    /\ UNCHANGED << attendance_mode, allow_mode_switch, person_track_status, desk_today,
                    desk_captures, seen_at, absent_seen, seen_since_capture,
                    redetected >>
    /\ UNCHANGED << wnow, system_mode, is_locked, last_processed, today_attendance,
                    recent_track_roles, track_states, recent_unknowns,
                    unknown_last_processed, nframes, win_start, win_dets, win_calls,
                    unk_suppressed, unk_writes, staff_identified, staff_gate_skips,
                    track_last_frame >>
    /\ UNCHANGED << clock, storeVars, last_unknown_call, last_recheck, lockVars,
                    loopVars, maintVars >>

\* detect_and_capture_motion for one person-sized region: skipped when near a
\* face track of this cycle, when captured less than the motion interval ago,
\* when the region of interest is too small for the face detector, or when the
\* face found in it is a staff member's (recognition >= 0.45); otherwise
\* forwarded to process_unknown_entries as a motion sighting
MotionSighting(dt, motion_id, is_known_face, roi_ok, face, staff_info) ==
    /\ ncycles < MaxCycles
    /\ ncycles' = ncycles + 1
    /\ dnow' = dnow + dt
    /\ LET now == dnow + dt
           time_since_capture == now - last_motion_capture_time[motion_id]
           is_staff == /\ face.has_face
                       /\ face.person_type = "staff"
                       /\ staff_info
                       /\ face.rec_conf >= 45
           forwarded == /\ ~is_known_face
                        /\ ~MotionCaptureTooSoon(time_since_capture)
                        /\ roi_ok
                        /\ ~is_staff
       IN
       IF forwarded
       THEN /\ last_motion_capture_time' =
                  [last_motion_capture_time EXCEPT ![motion_id] = now]
            /\ ProcessUnknownEntries("motion", motion_id,
                                     IF face.has_face THEN face.person_type ELSE "unknown",
                                     IF face.has_face THEN face.face_conf ELSE 0,
                                     IF face.has_face THEN face.rec_conf ELSE 0,
                                     face.has_face,
                                     IF face.has_face THEN face.embedding ELSE <<0, 0>>,
                                     now)
       ELSE /\ last_sighting' = [NoneSighting EXCEPT !.source = "motion",
                                                     !.track_id = motion_id]
            /\ UNCHANGED << last_motion_capture_time, unknown_entries, last_written >>
    /\ UNCHANGED << attendance_mode, allow_mode_switch, person_track_status, desk_today,
                    desk_captures, seen_at, absent_seen, seen_since_capture,
                    redetected >>
    /\ UNCHANGED << wnow, system_mode, is_locked, last_processed, today_attendance,
                    recent_track_roles, track_states, recent_unknowns,
                    unknown_last_processed, nframes, win_start, win_dets, win_calls,
                    unk_suppressed, unk_writes, staff_identified, staff_gate_skips,
                    track_last_frame >>
    /\ UNCHANGED << clock, storeVars, last_unknown_call, last_recheck, lockVars,
                    loopVars, maintVars >>

\* confidences around the thresholds 0.3 (face) and 0.5 (recognition)
FaceConfs == {20, 30, 90}

RecConfs == {0, 40, 60}

\* what the face detector finds in the region of a motion
MotionFaces ==
    {[has_face |-> FALSE, person_type |-> "unknown", face_conf |-> 0, rec_conf |-> 0,
      embedding |-> <<0, 0>>]}
    \cup {[has_face |-> TRUE, person_type |-> pt, face_conf |-> 90, rec_conf |-> rc,
           embedding |-> <<1, 1>>] : pt \in {"staff", "unknown"}, rc \in {40, 60}}

NextRecorder ==
    \/ \E dt \in {1}, pt \in PersonTypes, fc \in FaceConfs, rc \in RecConfs :
          DeskFaceSighting(dt, 2, pt, fc, rc, <<1, 1>>)
    \/ \E dt \in {1}, fc \in FaceConfs, rc \in RecConfs :
          WebFaceSighting(dt, 2, "unknown", fc, rc, <<1, 1>>)
    \/ \E dt \in {0, 1}, m \in MotionIds, k \in BOOLEAN, roi \in BOOLEAN, f \in MotionFaces,
          si \in BOOLEAN :
          MotionSighting(dt, m, k, roi, f, si)

RecorderInit == Init /\ InitCheckinServer /\ InitDeskCheckin

SpecRecorder == RecorderInit /\ [][NextRecorder]_vars

(***************************************************************************)
(* Maintenance of the database file: fix_database_schema,                  *)
(* delete_staff_member and reset_recognition_data, next to the calls that  *)
(* record attendance.                                                      *)
(***************************************************************************)
\* ALTER TABLE visits ADD COLUMN with the defaults (DATE('now')) and
\* CURRENT_TIMESTAMP: SQLite raises "Cannot add a column with non-constant
\* default" when the table holds rows
AddColumnFails(sc, col) ==
    /\ col \in {"visit_date", "visit_time"}
    /\ sc.has_rows

\* "if col_name not in existing_columns: ALTER TABLE ... ADD COLUMN": st is the
\* column set so far and whether the method is still running
AddColumn(sc, st, col) ==
    IF ~st.ok \/ col \in st.cols THEN st
    ELSE IF AddColumnFails(sc, col) THEN [st EXCEPT !.ok = FALSE]
    ELSE [st EXCEPT !.cols = @ \cup {col}]

\* fix_database_schema: the three columns of visits in order, then the three
\* of staff; an exception ends the method, what was added before it stays
FixSchema(sc) ==
    LET v0 == [cols |-> sc.visits, ok |-> TRUE]
        v1 == AddColumn(sc, v0, "visit_date")
        v2 == AddColumn(sc, v1, "visit_time")
        v3 == AddColumn(sc, v2, "is_first_visit_today")
        staff == IF v3.ok THEN sc.staff \cup RequiredStaff ELSE sc.staff
    IN  [sc EXCEPT !.visits = v3.cols, !.staff = staff]

FixDatabaseSchema ==
    /\ LET after == FixSchema(schema) IN
       schema' = [after EXCEPT !.fixed = TRUE,
                               !.once = IF ~schema.fixed
                                        THEN [visits |-> after.visits, staff |-> after.staff]
                                        ELSE @]
    /\ UNCHANGED staff_rows
    /\ UNCHANGED << clock, storeVars, webVars, deskVars, last_unknown_call, last_recheck,
                    lockVars, loopVars, recVars >>

\* delete_staff_member: DELETE FROM staff WHERE staff_id = ?
DeleteStaffMember(s) ==
    /\ writer = 0
    /\ staff_rows' = staff_rows \ {s}
    /\ UNCHANGED schema
    /\ UNCHANGED << clock, storeVars, webVars, deskVars, last_unknown_call, last_recheck,
                    lockVars, loopVars, recVars >>

\* the tables reset_recognition_data clears, with staff_checkins among them
TablesToReset_WithCheckins ==
    {"customers", "visits", "staff_detections", "staff_attendance",
     "daily_visit_summary", "staff_checkins"}

\* tables_to_reset of reset_recognition_data
TablesToReset ==
    {"customers", "visits", "staff_detections", "staff_attendance",
     "daily_visit_summary"}

\* reset_recognition_data: a backup copy of the file, then DELETE FROM each of
\* the tables; a failed copy ends the method before any statement
ResetRecognitionData(backup_ok) ==
    /\ writer = 0
    /\ \A q \in Procs : pc[q] = "idle"
    /\ IF backup_ok
       THEN /\ staff_attendance' =
                  IF "staff_attendance" \in TablesToReset THEN << >> ELSE staff_attendance
            /\ staff_checkins' =
                  IF "staff_checkins" \in TablesToReset THEN << >> ELSE staff_checkins
            /\ schema' = [schema EXCEPT !.has_rows =
                             IF "visits" \in TablesToReset THEN FALSE ELSE @]
       ELSE UNCHANGED << staff_attendance, staff_checkins, schema >>
    /\ UNCHANGED staff_rows
    /\ UNCHANGED << clock, writer, pc, loc, tx, result, ncalls, ok_checkins >>
    /\ UNCHANGED << webVars, deskVars, last_unknown_call, last_recheck, lockVars,
                    loopVars, recVars >>

NextSchema == FixDatabaseSchema

\* database files of earlier versions: any of the required columns missing
LegacySchemas ==
    {NewSchema(v, st, r) :
        v \in SUBSET RequiredVisits, st \in SUBSET RequiredStaff, r \in BOOLEAN}

SchemaInit == InitBase /\ InitCheckinServer /\ InitDeskCheckin /\ schema \in LegacySchemas

SpecSchema == SchemaInit /\ [][NextSchema]_vars

\* unknown entries of one track in either mode, which the admin re-checks as
\* staff (record_staff_attendance as check-in or check-out), and the
\* maintenance operations
NextMaintenance ==
    \/ \E m \in {"checkin", "checkout"} : RecordUnknownEntryCall(1, "unknown_person", m, "ok")
    \/ \E id \in 1..MaxCalls, s \in {1} : RecheckAsStaff(id, s)
    \/ \E s \in {1} : DeleteStaffMember(s)
    \/ \E b \in BOOLEAN : ResetRecognitionData(b)
    \/ FixDatabaseSchema

MaintenanceInit == Init /\ InitCheckinServer /\ InitDeskCheckin

SpecMaintenance == MaintenanceInit /\ [][NextMaintenance]_vars

(***************************************************************************)
(* Properties of the Attendance Store.                                     *)
(***************************************************************************)
RowsOf(tbl, s, d) == {i \in DOMAIN tbl : KeyMatch(tbl[i], s, d)}

BothTimesSet(r) == r.check_in_time # NULL /\ r.check_out_time # NULL

\* C1: for every staff id and date, staff_attendance holds at most one row with
\* that key, in the committed table and in every connection's open transaction,
\* whatever the interleaving of the processes' check-in and check-out calls.
C1_UniqueAttendanceDay ==
    \A s \in Staff, d \in Days :
        /\ Cardinality(RowsOf(staff_attendance, s, d)) <= 1
        /\ \A p \in Procs : Cardinality(RowsOf(tx[p].att, s, d)) <= 1

\* a check-in that found no row lost the race for the key: its INSERT was
\* refused by the constraint, the row of the other call is there
C1_Witness ==
    /\ result.error = "IntegrityError"
    /\ Len(staff_attendance) >= 1

\* C6: for every (staff, date) the number of staff_checkins rows equals the
\* number of check-in calls that returned success (one row per successful
\* check-in, inserted or updated day row alike, none for a check-out).
C6_OneEventPerCheckin ==
    \A s \in Staff, d \in Days :
        Cardinality(RowsOf(staff_checkins, s, d)) = ok_checkins[s][d]

\* a day with a check-in that inserted the row, a check-in that updated it, and
\* a successful check-out
C6_Witness ==
    \E s \in Staff, d \in Days :
        /\ ok_checkins[s][d] >= 2
        /\ \E i \in RowsOf(staff_attendance, s, d) :
              staff_attendance[i].check_out_time # NULL

\* C7 as stated: with t the check time to the second, late_minutes > 0 if and
\* only if 09:00:00 < t <= 09:20:00, and outside that window late_minutes = 0
\* and status 'Present'.
C7_Original ==
    \A i \in DOMAIN staff_checkins :
        LET r == staff_checkins[i]
            inWindow == ExpectedTime < r.check_time /\ r.check_time <= LateWindowEnd
        IN  /\ (r.late_minutes > 0) <=> inWindow
            /\ ~inWindow => (r.late_minutes = 0 /\ r.status = "Present")

\* C7 amended: with t the check-in time including its sub-second part, the
\* event is 'Late' exactly when 09:00:00 < t <= 09:20:00; late_minutes counts
\* the whole minutes past 09:00:00, so late_minutes > 0 if and only if
\* 09:01:00 <= t <= 09:20:00; outside the window late_minutes = 0 and the
\* status is 'Present'.  (Times in half seconds: 2 * check_time + us.)
C7_LateMinutesWholeMinutes ==
    \A i \in DOMAIN staff_checkins :
        LET r == staff_checkins[i]
            t2 == 2 * r.check_time + r.us
            inWindow == 2 * ExpectedTime < t2 /\ t2 <= 2 * LateWindowEnd
        IN  /\ (r.status = "Late") <=> inWindow
            /\ (r.late_minutes > 0) <=> (inWindow /\ r.check_time >= ExpectedTime + 60)
            /\ inWindow => r.late_minutes * 60 <= r.check_time - ExpectedTime
            /\ inWindow => r.check_time - ExpectedTime < (r.late_minutes + 1) * 60
            /\ ~inWindow => (r.late_minutes = 0 /\ r.status = "Present")
            /\ r.status \in {"Late", "Present"}

\* events inside the window with and without a whole minute of lateness, and an
\* event just after the window
C7_Witness ==
    /\ \E i \in DOMAIN staff_checkins : staff_checkins[i].late_minutes > 0
    /\ \E i \in DOMAIN staff_checkins :
          /\ staff_checkins[i].status = "Late"
          /\ staff_checkins[i].late_minutes = 0
    /\ \E i \in DOMAIN staff_checkins :
          /\ staff_checkins[i].check_time = LateWindowEnd
          /\ staff_checkins[i].status = "Present"

\* C8: every staff_attendance row with both times set has hours_worked >= 0 and
\* hours_worked = check_out_time - check_in_time (hours_worked kept in seconds).
C8_HoursWorked ==
    \A i \in DOMAIN staff_attendance :
        LET r == staff_attendance[i] IN
        BothTimesSet(r) =>
            /\ r.hours_worked >= 0
            /\ r.hours_worked = r.check_out_time - r.check_in_time

\* C9: every staff_attendance row with both times set has
\* check_in_time <= check_out_time.
C9_CheckInBeforeCheckOut ==
    \A i \in DOMAIN staff_attendance :
        LET r == staff_attendance[i] IN
        BothTimesSet(r) => r.check_in_time <= r.check_out_time

\* the most recent CheckinEvent of (s, d)
LastEvent(s, d) ==
    LET idx == RowsOf(staff_checkins, s, d)
    IN  staff_checkins[CHOOSE i \in idx : \A j \in idx : j <= i]

\* C10: a row's status equals the status of the most recent CheckinEvent of its
\* staff and date (a check-in on an existing row overwrites check_in_time and
\* status with the values of the new check-in).
C10_StatusOfLastCheckin ==
    \A i \in DOMAIN staff_attendance :
        LET r == staff_attendance[i] IN
        RowsOf(staff_checkins, r.staff_id, r.date) # {} =>
            /\ r.check_in_time = LastEvent(r.staff_id, r.date).check_time
            /\ r.status = LastEvent(r.staff_id, r.date).status

\* a step in which the call of process p returns
Returns(p) == pc[p] # "idle" /\ pc'[p] = "idle"

\* C12: record_staff_attendance is all-or-nothing. A call that returns
\* success = False leaves both committed tables as they were, no step other
\* than a successful return changes them, and a call that returns success =
\* True makes its staff_attendance row (with the time of the call) and, for a
\* check-in, its staff_checkins row visible in the same step.
C12_AllOrNothing ==
    [][/\ \A p \in Procs :
            Returns(p) =>
               LET l == loc[p] IN
               IF result'.success
               THEN /\ \E i \in DOMAIN staff_attendance' :
                          LET r == staff_attendance'[i] IN
                          /\ r.staff_id = l.staff_id
                          /\ r.date = l.date
                          /\ IF l.type = "check_in" THEN r.check_in_time = l.tod
                                                    ELSE r.check_out_time = l.tod
                    /\ IF l.type = "check_in"
                       THEN /\ Len(staff_checkins') = Len(staff_checkins) + 1
                            /\ staff_checkins'[Len(staff_checkins')].staff_id = l.staff_id
                            /\ staff_checkins'[Len(staff_checkins')].date = l.date
                            /\ staff_checkins'[Len(staff_checkins')].check_time = l.tod
                       ELSE staff_checkins' = staff_checkins
               ELSE /\ staff_attendance' = staff_attendance
                    /\ staff_checkins' = staff_checkins
       /\ (staff_attendance' # staff_attendance \/ staff_checkins' # staff_checkins)
             => \E p \in Procs : Returns(p) /\ result'.success]_vars

\* a check-in of a day that has a row and an event failed after its writes
C12_Witness ==
    /\ result.error = "OperationalError on commit"
    /\ Len(staff_attendance) >= 1
    /\ Len(staff_checkins) >= 1

\* C13: with the check-in process and the check-out processes calling
\* record_staff_attendance for a day on which the check-in's SELECT found no
\* row, every call returns success, whatever the interleaving of their store
\* steps (failures of the disk or of the busy timeout apart).
C13_BothCallsSucceed ==
    [][\A p \in Procs :
          (/\ Returns(p)
           /\ ~loc[p].existing
           /\ result'.error \notin {"OperationalError", "OperationalError on commit"})
          => result'.success]_vars

\* C15: once a track id has received a confident staff identification, no
\* later frame on it causes an unknown-entry write for that track: no write
\* is logged for it and no row of that track id is added or changed.
C15_StaffTrackNeverUnknown ==
    [][\A t \in staff_identified :
          /\ Len(unk_writes') > Len(unk_writes) => unk_writes'[Len(unk_writes')].track_id # t
          /\ \A i \in DOMAIN unknown_entries' :
                unknown_entries'[i].track_id = t
                   => i \in DOMAIN unknown_entries /\ unknown_entries'[i] = unknown_entries[i]]_vars

\* a frame of an unknown face on a track identified as staff once (not yet
\* confirmed by a second staff frame) was skipped
C15_Witness ==
    \E t \in staff_identified :
        /\ t \in staff_gate_skips
        /\ ~track_states[t].staff_confirmed

(***************************************************************************)
(* Properties of the web server's gates on one persisting unknown track    *)
(* (SpecWebTrack: every frame is a sighting of an unrecognised face on     *)
(* track 1).                                                               *)
(***************************************************************************)
RecaptureInterval == 2

\* the step is a frame whose sighting reached the recorder and passed its
\* debounce (crop and write follow)
Forwarded == nframes' = nframes + 1 /\ unknown_last_processed'[1] = wnow'

\* the step is a frame whose sighting the similarity gate suppressed
SuppressedAsSame == nframes' = nframes + 1 /\ unk_suppressed' # unk_suppressed

\* C17: a sighting on a track already recorded is skipped if and only if the
\* re-capture interval (2 s) has not elapsed since the track's last capture
\* (sightings suppressed by the similarity gate apart).
C17_SkippedIffWithinInterval ==
    [][(/\ nframes' = nframes + 1
        /\ track_states[1].unknown_recorded
        /\ ~SuppressedAsSame)
       => (Forwarded <=> wnow' - unknown_last_processed[1] >= RecaptureInterval)]_vars

\* C18: a sighting of a face not confirmed as staff on a track seen for the
\* first time is forwarded to the recorder in that same frame (sightings
\* suppressed by the similarity gate apart).
C18_FirstSightingForwarded ==
    [][(/\ nframes' = nframes + 1
        /\ track_states[1].first_seen = NULL
        /\ ~SuppressedAsSame)
       => Forwarded]_vars

\* the step is a frame whose embedding was appended to the recent-unknown cache
CachedNow ==
    /\ nframes' = nframes + 1
    /\ wnow' # wnow
    /\ recent_unknowns' # << >>
    /\ recent_unknowns'[Len(recent_unknowns')].ts = wnow'

\* C19: the recent-unknown cache and the store stay coupled: a sighting the
\* similarity gate suppresses adds no cache entry, and a frame appends an
\* embedding to the cache only if its unknown_entries write is performed.
C19_CacheCoupledToStore ==
    [][/\ SuppressedAsSame => ~CachedNow
       /\ CachedNow => Len(unk_writes') = Len(unk_writes) + 1]_vars

\* an event row written at or before 09:00:00
OnTimeEvent(r) ==
    r.check_time < ExpectedTime \/ (r.check_time = ExpectedTime /\ r.us = 0)

\* the rows of staff_attendance of the event's staff member and day
DayRowsOf(r) ==
    {j \in DOMAIN staff_attendance : KeyMatch(staff_attendance[j], r.staff_id, r.date)}

WithinLeaveTimeout(s) ==
    /\ ncycles' # ncycles
    /\ seen_at[s] # NULL
    /\ dnow' - seen_at[s] <= PersonTrackTimeout

\* C32: a staff member undetected for no longer than the leave timeout stays
\* in frame: a cycle within the timeout that does not detect the member leaves
\* the tracking entry as it is, and a cycle within the timeout that detects
\* the member again after such cycles finds the entry in frame, keeps it in
\* frame, does not change captured and calls process_attendance for nobody
C32_ShortAbsenceKeepsInFrame ==
    [][\A s \in Staff :
          WithinLeaveTimeout(s) =>
             IF seen_at'[s] = dnow'
             THEN seen_at[s] # dnow =>
                     /\ person_track_status[s].in_frame
                     /\ person_track_status'[s].in_frame
                     /\ person_track_status'[s].captured = person_track_status[s].captured
                     /\ desk_captures'[s] = desk_captures[s]
             ELSE person_track_status'[s] = person_track_status[s]]_vars

\* staff member 1 was detected again after cycles that missed it, within the
\* leave timeout
C32_Witness ==
    /\ redetected[1]
    /\ person_track_status[1].in_frame

(***************************************************************************)
(* Properties of the unknown_entries table.                                *)
(***************************************************************************)
\* the unprocessed rows of a track id and a date
UnprocessedOf(tbl, t, d) ==
    {i \in DOMAIN tbl : tbl[i].track_id = t /\ tbl[i].date = d /\ tbl[i].is_processed = 0}

\* C11: a record_unknown_entry call that returns an entry id, made for a track
\* id and date that have an unprocessed row, updates such a row and leaves the
\* number of rows unchanged; made when every row of that key is processed (or
\* there is none), it appends a row with is_processed = 0 and changes no
\* existing row.
C11_UpsertWhileUnprocessed ==
    [][LET c == last_unknown_call'
           old == unknown_entries
           new == unknown_entries'
       IN  (ncalls' = ncalls + 1 /\ c.entry_id # NULL /\ c.track_id # None) =>
              IF UnprocessedOf(old, c.track_id, c.date) # {}
              THEN /\ Len(new) = Len(old)
                   /\ c.entry_id \in UnprocessedOf(old, c.track_id, c.date)
                   /\ new[c.entry_id].time = c.tod
                   /\ new[c.entry_id].is_processed = 0
                   /\ \A i \in DOMAIN old : i # c.entry_id => new[i] = old[i]
              ELSE /\ Len(new) = Len(old) + 1
                   /\ c.entry_id = Len(new)
                   /\ new[Len(new)].track_id = c.track_id
                   /\ new[Len(new)].date = c.date
                   /\ new[Len(new)].is_processed = 0
                   /\ \A i \in DOMAIN old : new[i] = old[i]]_vars

\* a track id whose first row was marked processed, then received a second
\* row, which the last call updated
C11_Witness ==
    /\ Len(unknown_entries) = 2
    /\ unknown_entries[1].is_processed = 1
    /\ unknown_entries[2].is_processed = 0
    /\ unknown_entries[1].track_id = unknown_entries[2].track_id
    /\ unknown_entries[1].track_id # None
    /\ unknown_entries[1].date = unknown_entries[2].date
    /\ last_unknown_call.entry_id = 2
    /\ unknown_entries[2].time = last_unknown_call.tod
    /\ ncalls = 3

\* C38: a record_unknown_entry call that updates an existing unprocessed row
\* changes only columns the UPDATE names (of the modelled ones: time and
\* mode); the row's id, track_id, date, entry_type and is_processed stay as
\* they were and no other row is touched.
C38_UpdateKeepsIdentityColumns ==
    [][LET c == last_unknown_call'
           old == unknown_entries
           new == unknown_entries'
       IN  (ncalls' = ncalls + 1 /\ c.entry_id # NULL /\ Len(new) = Len(old)) =>
              /\ c.entry_id \in DOMAIN old
              /\ new[c.entry_id].id = old[c.entry_id].id
              /\ new[c.entry_id].track_id = old[c.entry_id].track_id
              /\ new[c.entry_id].date = old[c.entry_id].date
              /\ new[c.entry_id].entry_type = old[c.entry_id].entry_type
              /\ new[c.entry_id].is_processed = old[c.entry_id].is_processed
              /\ new[c.entry_id].time = c.tod
              /\ \A i \in DOMAIN old : i # c.entry_id => new[i] = old[i]]_vars

\* the second row of a track, updated by a call whose sighting was classified
\* differently from the row, next to the processed first row
C38_Witness ==
    /\ Len(unknown_entries) = 2
    /\ unknown_entries[1].is_processed = 1
    /\ last_unknown_call.entry_id = 2
    /\ ncalls = 3
    /\ last_unknown_call.entry_type # unknown_entries[2].entry_type
    /\ unknown_entries[2].time = last_unknown_call.tod
    /\ unknown_entries[2].is_processed = 0

(***************************************************************************)
(* Properties of the mutex.                                                *)
(***************************************************************************)
\* the threads whose connection is open, or that are inside a route's block
InCriticalSection == {t \in Threads : thread_at[t] \in {"open", "raised"}}

\* C14: within one process at most one thread at a time is between the opening
\* and the closing of the connection of a store operation, or inside an admin
\* route's 'with db_manager.lock' block.
C14_OneThreadInCriticalSection == Cardinality(InCriticalSection) <= 1

(***************************************************************************)
(* Properties of the admin's re-check-as-staff route.                      *)
(***************************************************************************)
\* C20: a re-check-as-staff with a confident match records a check-in or
\* check-out if and only if the staff member has no check-in event on the
\* entry's date within 5 minutes of the entry's detection time, and the entry
\* ends with is_processed = 1 in both cases.
C20_RecordedIffNoEventNearby ==
    [][last_recheck'.n = last_recheck.n + 1 =>
          LET id == last_recheck'.entry_id
              e == unknown_entries[id]
              nearby == \E i \in DOMAIN staff_checkins :
                           /\ staff_checkins[i].staff_id = last_recheck'.staff_id
                           /\ staff_checkins[i].date = e.date
                           /\ Abs(staff_checkins[i].check_time - e.time)
                                 <= RecheckWindowSeconds
          IN  /\ last_recheck'.called <=> ~nearby
              /\ last_recheck'.called <=>
                    (staff_attendance' # staff_attendance \/ staff_checkins' # staff_checkins)
              /\ unknown_entries'[id].is_processed = 1]_vars

\* C39: re-check-as-staff is idempotent on attendance: a request for the
\* entry and staff member of the previous request, which recorded a check-in
\* or check-out, records none.
C39_RecheckIdempotent ==
    [][( /\ last_recheck'.n = last_recheck.n + 1
         /\ last_recheck'.entry_id = last_recheck.entry_id
         /\ last_recheck'.staff_id = last_recheck.staff_id
         /\ last_recheck.called )
          => ( /\ ~last_recheck'.called
               /\ UNCHANGED << staff_attendance, staff_checkins >> )]_vars

(***************************************************************************)
(* Properties of the frame-processing loop.                                *)
(***************************************************************************)
InIteration(t) == lp[t] \in {"acquire", "frame", "write"}

\* C21: no step taken inside an iteration, exceptions included, ends the
\* loop: the thread is at the top of the loop or further inside the
\* iteration afterwards, and it leaves the loop only at a test of the running
\* flag that finds it false.
C21_ExceptionNeverEndsLoop ==
    [][\A t \in LoopThreads :
          /\ InIteration(t) => lp'[t] # "done"
          /\ (lp[t] # "done" /\ lp'[t] = "done") => (lp[t] = "top" /\ ~running)]_vars

\* a thread whose iteration raised has taken a later frame, the flag still set
C21_Witness ==
    \E t \in LoopThreads : lp_last[t] = "exception" /\ running /\ lp[t] = "frame"

AllLoopsEnded == \A t \in LoopThreads : lp[t] \in {"none", "done"}

\* C22: once the running flag is cleared for good, every loop thread
\* finishes the iteration in flight and terminates, and no thread begins an
\* iteration while the flag is false.
C22_StopEndsLoop ==
    /\ [][\A t \in LoopThreads :
             (lp[t] = "top" /\ lp'[t] = "acquire") => running]_vars
    /\ (<>[](~running) => <>[]AllLoopsEnded)

\* a thread that completed the store write of its iteration after the stop
\* and then ended
C22_Witness ==
    \E t \in LoopThreads :
        /\ lp_last[t] = "written after stop"
        /\ lp[t] = "done"
        /\ ~running

\* C30: a locked server keeps its mode: no step taken while is_locked holds
\* changes system_mode.
C30_LockedModeNeverChanges ==
    [][is_locked => system_mode' = system_mode]_vars

(***************************************************************************)
(* Properties of the unknown entry recorder and the motion detector.       *)
(***************************************************************************)
\* C23: a motion sighting is not written while its embedding is as similar as
\* the duplicate threshold to a sighting written within the window before it.
C23_MotionPassesSimilarityGate ==
    (last_sighting.source = "motion" /\ last_sighting.written)
        => ~last_sighting.duplicate

\* C25: the entry type the recorder gives a face-based sighting is the result
\* of the first matching rule of the ordered list (covered_face below 0.3 face
\* confidence, unknown_person for a recognition confidence in (0, 0.5),
\* unknown_person for 0, no_face without a face).
C25_EntryTypeIsFirstMatchingRule ==
    LET face_conf == last_sighting.face_conf
        rec_conf == last_sighting.rec_conf
        first_match == IF face_conf < 30 THEN "covered_face"
                       ELSE IF rec_conf > 0 /\ rec_conf < 50 THEN "unknown_person"
                       ELSE IF rec_conf = 0 THEN "unknown_person"
                       ELSE IF ~last_sighting.has_face THEN "no_face"
                       ELSE "unknown_person"
    IN  last_sighting.source \in {"face", "web"}
            => last_sighting.entry_type = first_match

\* C26: every row of unknown_entries has one of the three entry types.
C26_EntryTypeInDomain ==
    \A i \in DOMAIN unknown_entries :
        unknown_entries[i].entry_type \in {"no_face", "unknown_person", "covered_face"}

(***************************************************************************)
(* Properties of the maintenance of the database file.                     *)
(***************************************************************************)
\* C28: once fix_database_schema has run, every required column of visits
\* and of staff is present.
C28_RequiredColumnsPresent ==
    schema.fixed =>
        /\ RequiredVisits \subseteq schema.visits
        /\ RequiredStaff \subseteq schema.staff

\* the columns only grow, and a second run leaves what the first run left
SchemaAdditiveIdempotent ==
    /\ schema.start.visits \subseteq schema.visits
    /\ schema.start.staff \subseteq schema.staff
    /\ schema.fixed =>
          (schema.visits = schema.once.visits /\ schema.staff = schema.once.staff)

\* C29: no step changes or removes a row of staff_checkins: after every step
\* the table before it is a prefix of the table.
C29_CheckinsAppendOnly ==
    [][/\ Len(staff_checkins') >= Len(staff_checkins)
       /\ \A i \in DOMAIN staff_checkins : staff_checkins'[i] = staff_checkins[i]]_vars

\* the event of a deleted staff member kept after the day summaries were reset
C29_Witness ==
    /\ staff_attendance = << >>
    /\ \E i \in DOMAIN staff_checkins : staff_checkins[i].staff_id \notin staff_rows

\* C31: a track's staff_confirmed flag becomes true only in a step in which
\* the frame just processed and the frame before it on that track were both
\* confident staff identifications of the same staff id; and a confident
\* frame naming another staff id than the track's sets the count to 1,
\* replaces the staff id and clears the flag
C31_ConfirmedByTwoLatestFrames ==
    [][\A t \in Tracks :
          /\ (~track_states[t].staff_confirmed /\ track_states'[t].staff_confirmed)
                => /\ track_last_frame[t] # None
                   /\ track_last_frame'[t] = track_last_frame[t]
          /\ ( /\ track_last_frame'[t] # None
               /\ track_states[t].staff_id # None
               /\ track_states[t].staff_id # track_last_frame'[t] )
                => /\ track_states'[t].stable_staff_frames = 1
                   /\ track_states'[t].staff_id = track_last_frame'[t]
                   /\ ~track_states'[t].staff_confirmed]_vars

\* the loop threads started and not yet past the end of their while loop
ActiveLoops == {t \in LoopThreads : lp[t] \notin {"none", "done"}}

\* C35: at most one frame-processing loop thread is active in the server
\* process, whatever the order of the start and stop requests.
C35_AtMostOneLoop == Cardinality(ActiveLoops) <= 1

\* C36: unknown_entries holds at most one unprocessed row per track id and
\* date, the missing track id (None, stored as NULL) included.
C36_OneUnprocessedRowPerTrackDay ==
    \A i, j \in DOMAIN unknown_entries :
        ( /\ unknown_entries[i].is_processed = 0
          /\ unknown_entries[j].is_processed = 0
          /\ unknown_entries[i].track_id = unknown_entries[j].track_id
          /\ unknown_entries[i].date = unknown_entries[j].date )
            => i = j

\* C37: a track's unknown_recorded flag becomes true only in a step that
\* writes an unknown_entries row for that track: it stays false when
\* process_unknown_entry returns without writing or the store write fails.
C37_RecordedOnlyIfWritten ==
    [][\A t \in Tracks :
          (~track_states[t].unknown_recorded /\ track_states'[t].unknown_recorded)
             => /\ Len(unk_writes') = Len(unk_writes) + 1
                /\ unk_writes'[Len(unk_writes')].track_id = t
                /\ unknown_entries' # unknown_entries]_vars

(***************************************************************************)
(* Properties of the desktop engine's entry/exit tracking.                 *)
(***************************************************************************)
\* the step is a processed cycle that detects staff member s
CycleDetects(s) == ncycles' = ncycles + 1 /\ seen_at'[s] = dnow'

\* C3: a staff member seen before, whose last detection lies more
\* than person_track_timeout seconds back when a cycle detects them again, is
\* captured exactly once by that cycle.
C3_OneCapturePerReturn ==
    [][\A s \in Staff :
          (CycleDetects(s) /\ seen_at[s] # NULL /\ dnow' - seen_at[s] > PersonTrackTimeout)
             => desk_captures'[s] = desk_captures[s] + 1]_vars

\* C4: a cycle makes no process_attendance call for a staff member who was
\* seen before and has not been found undetected for more than
\* person_track_timeout seconds since their last detection.
C4_NoCaptureWhileInFrame ==
    [][\A s \in Staff :
          (ncycles' = ncycles + 1 /\ seen_at[s] # NULL /\ ~absent_seen[s])
             => desk_captures'[s] = desk_captures[s]]_vars

\* a captured staff member detected by a later cycle, still with one capture
C4_Witness ==
    \E s \in Staff :
        /\ desk_captures[s] = 1
        /\ seen_since_capture[s]
        /\ seen_at[s] = dnow
        /\ person_track_status[s].in_frame
        /\ person_track_status[s].captured

\* the rows of a table that belong to staff member s
OfStaff(tbl, s) == SelectSeq(tbl, LAMBDA r : r.staff_id = s)

\* C16: a cycle that detects a confirmed staff id with no tracking entry yet
\* creates the entry with in_frame true and captured false, makes no
\* process_attendance call for that staff id and writes no row of theirs.
C16_FirstSightingOnlyMarksInFrame ==
    [][\A s \in Staff :
          (CycleDetects(s) /\ ~person_track_status[s].exists)
             => /\ person_track_status'[s] =
                      [exists |-> TRUE, in_frame |-> TRUE, last_seen |-> dnow',
                       captured |-> FALSE]
                /\ desk_captures'[s] = desk_captures[s]
                /\ OfStaff(staff_attendance', s) = OfStaff(staff_attendance, s)
                /\ OfStaff(staff_checkins', s) = OfStaff(staff_checkins, s)
                /\ desk_today'[s] = desk_today[s]]_vars

\* a staff member detected for the first time by the last cycle: in frame,
\* never captured, nothing stored
C16_Witness ==
    \E s \in Staff :
        /\ seen_at[s] = dnow
        /\ ncycles >= 1
        /\ person_track_status[s].in_frame
        /\ ~person_track_status[s].captured
        /\ person_track_status[s].last_seen = dnow
        /\ desk_captures[s] = 0
        /\ OfStaff(staff_attendance, s) = << >>

\* the tracking entry of s has had no detection for longer than the timeout
StaleEntry(s) ==
    /\ person_track_status[s].exists
    /\ seen_at[s] # NULL
    /\ dnow - seen_at[s] > PersonTrackTimeout

\* no step removes an entry of person_track_status
EntriesNeverRemoved ==
    [][\A s \in Staff : person_track_status[s].exists => person_track_status'[s].exists]_vars

C2_OneCallPerWindow ==
    \A s \in Staff : win_start[s] # NULL => win_calls[s] = 1

\* a window of three detections of one staff id, the last one 29 s after the
\* first, with one call
C2_Witness ==
    \E s \in Staff :
        /\ win_dets[s] >= 3
        /\ wnow - win_start[s] = 29
        /\ win_calls[s] = 1
        /\ \E i \in DOMAIN staff_attendance : staff_attendance[i].staff_id = s

\* the step handles a confident detection of staff id s
DetectedNow(s) == win_dets'[s] # win_dets[s] \/ win_start'[s] # win_start[s]

\* time of the last call for s that record_checkin or record_check_out handled,
\* as today_attendance keeps it (NULL if there was none)
LastAcceptedAt(s) ==
    Max(today_attendance[s].check_in_time, today_attendance[s].check_out_time)

\* C33: the debounce window of process_attendance is counted from the last
\* accepted call for the staff id: a detection 30 s or more after it is
\* accepted, whatever was ignored in between, and a detection less than 30 s
\* after it is ignored and does not move the window
C33_WindowFromLastAccepted ==
    [][\A s \in Staff :
          (DetectedNow(s) /\ LastAcceptedAt(s) # NULL) =>
             IF wnow' - LastAcceptedAt(s) >= DebounceSeconds
             THEN /\ today_attendance'[s] # today_attendance[s]
                  /\ Max(today_attendance'[s].check_in_time,
                         today_attendance'[s].check_out_time) = wnow'
                  /\ last_processed'[s] = wnow'
             ELSE /\ today_attendance'[s] = today_attendance[s]
                  /\ last_processed'[s] = last_processed[s]
                  /\ UNCHANGED << staff_attendance, staff_checkins >>]_vars

\* three detections of one staff id: the first accepted, the second ignored
\* 29 s later, the third accepted 58 s after the first
C33_Witness ==
    \E s \in Staff :
        /\ nframes = 3
        /\ \A o \in Staff \ {s} : win_start[o] = NULL
        /\ LastAcceptedAt(s) = wnow
        /\ Len(staff_checkins) = 2
        /\ staff_checkins[1].staff_id = s
        /\ wnow - staff_checkins[1].check_time = 58

\* the step checks a sighting of embedding e, which the similarity gate stops
SuppressedWith(e) ==
    /\ unk_suppressed' # unk_suppressed
    /\ unk_suppressed'.embedding = e

\* the step checks a sighting of embedding e, which passes the similarity gate
\* and is appended to the cache
CachedWith(e) ==
    /\ recent_unknowns' # recent_unknowns
    /\ recent_unknowns' # << >>
    /\ recent_unknowns'[Len(recent_unknowns')] = [embedding |-> e, ts |-> wnow']

\* the cached entries similar to e, and those of them older than the window
\* at the time of the step's check
SimilarCached(e) ==
    {i \in DOMAIN recent_unknowns :
        CosineAtLeast(e, recent_unknowns[i].embedding, SimilarityThreshold)}
ExpiredCached(e) ==
    {i \in SimilarCached(e) : wnow' - recent_unknowns[i].ts > DedupWindowSeconds}

\* no check changes the timestamp of a cached entry: the entries after the
\* step are entries of before or the one appended for the sighting, and a
\* suppressed sighting appends none
TimestampsKept ==
    /\ \A j \in DOMAIN recent_unknowns' :
          recent_unknowns'[j].ts # wnow'
             => \E i \in DOMAIN recent_unknowns : recent_unknowns[i] = recent_unknowns'[j]
    /\ \A e \in Embeddings :
          SuppressedWith(e) => \A j \in DOMAIN recent_unknowns' : recent_unknowns'[j].ts # wnow'

\* C34 as stated: a cached embedding older than 300 s counted from its caching
\* no longer suppresses (no check refreshes its timestamp), and the first
\* similar sighting checked after its expiry passes the gate and is cached again
C34_Original ==
    [][/\ TimestampsKept
       /\ \A e \in Embeddings :
             ((SuppressedWith(e) \/ CachedWith(e)) /\ ExpiredCached(e) # {})
                => (CachedWith(e) /\ unk_suppressed' = unk_suppressed)]_vars

\* C34, amended: the same, for a sighting similar to no cached embedding that
\* is still inside its own window
C34_ExpiredEntryStopsSuppressing ==
    [][/\ TimestampsKept
       /\ \A e \in Embeddings :
             ( /\ SuppressedWith(e) \/ CachedWith(e)
               /\ ExpiredCached(e) # {}
               /\ ExpiredCached(e) = SimilarCached(e) )
                => (CachedWith(e) /\ unk_suppressed' = unk_suppressed)]_vars

\* an embedding written and cached, a similar sighting suppressed 180 s later,
\* and a similar sighting 360 s later that passed the gate and was cached
C34_Witness ==
    \E i \in DOMAIN unk_writes :
        /\ unk_writes[i].ts = wnow - 360
        /\ unk_suppressed.ts = wnow - 180
        /\ CosineAtLeast(unk_suppressed.embedding, unk_writes[i].embedding, SimilarityThreshold)
        /\ Len(recent_unknowns) = 1
        /\ recent_unknowns[1].ts = wnow
        /\ CosineAtLeast(recent_unknowns[1].embedding, unk_writes[i].embedding,
                         SimilarityThreshold)

\* cosine similarity of a and b >= 0.7
Similar70(a, b) ==
    /\ Dot(a, b) > 0
    /\ 100 * Dot(a, b) * Dot(a, b) >= 49 * Dot(a, a) * Dot(b, b)

\* C5: after a sighting with embedding E1 was recorded, a sighting at most 300 s
\* later whose embedding has cosine similarity >= 0.7 with E1 inserts no
\* unknown_entries row, on the same track id or on another one.
C5_NoSecondRowForSimilar ==
    \A i, j \in DOMAIN unk_writes :
        (i < j /\ unk_writes[j].inserted)
            => ~(/\ Similar70(unk_writes[i].embedding, unk_writes[j].embedding)
                 /\ unk_writes[j].ts - unk_writes[i].ts <= 300)

\* a recorded sighting followed, within the window, by a sighting of a similar
\* but different embedding on another track id, stopped by the gate
C5_Witness ==
    \E i \in DOMAIN unk_writes :
        /\ unk_writes[i].inserted
        /\ unk_suppressed.ts > unk_writes[i].ts
        /\ unk_suppressed.ts - unk_writes[i].ts <= 300
        /\ unk_suppressed.track_id # unk_writes[i].track_id
        /\ unk_suppressed.embedding # unk_writes[i].embedding
        /\ Similar70(unk_suppressed.embedding, unk_writes[i].embedding)
        /\ Len(unknown_entries) = 1

====
